-------------------------------- MODULE Shmem --------------------------------
(***************************************************************************)
(* The shared-memory allocator of core/dfs_shmem.cpp.  The mapping is cut  *)
(* into blocks, each behind a header (struct storage).  All blocks are on  *)
(* the order list, by address; a free block is also on one of the free     *)
(* lists, which are chosen by its size, and the non-empty free lists are   *)
(* on the available list by index.  The allocator is the record shm; each  *)
(* operation of the C file is an operator from a shm to a shm, so that     *)
(* Slabs can run them inside its own steps.  The unit of size is           *)
(* DFS_MATH_ALIGN_SIZE bytes.                                              *)
(***************************************************************************)
EXTENDS Integers, Sequences, SequencesExt, FiniteSetsExt

CONSTANTS HDR,          \* sizeof(struct storage)
          Arena,        \* bytes after dfs_shmem_t and the free array
          MinSize,      \* min_size, also the default split_threshold
          MaxSize,      \* max_size
          Factor        \* factor of DFS_SHMEM_LEVEL_TYPE_LINEAR

Levels == {"linear", "exp"}
None == -1

(* dfs_math_dfslog2(x, DOWN); UP adds one unless x is a power of two.      *)
dfslog2[x \in Nat] == IF x > 1 THEN 1 + dfslog2[x \div 2] ELSE 0
dfslog2_up(x) == dfslog2[x] + (IF x # 2 ^ dfslog2[x] THEN 1 ELSE 0)

Ceil(a, b) == (a + b - 1) \div b

(* The first free list all of whose blocks hold size bytes ...             *)
get_alloc_index(level, size) ==
    IF size <= MinSize THEN 0
    ELSE IF level = "linear" THEN Ceil(size - MinSize, Factor)
    ELSE dfslog2_up(Ceil(size, MinSize))

(* ... and the last one whose lower bound a block of size bytes reaches.   *)
get_insert_index(level, size) ==
    IF size <= MinSize THEN 0
    ELSE IF level = "linear" THEN (size - MinSize) \div Factor
    ELSE dfslog2[size \div MinSize]

free_len(level) ==
    1 + (IF level = "linear" THEN Ceil(MaxSize - MinSize, Factor)
                             ELSE dfslog2_up(Ceil(MaxSize, MinSize)))

(* One block, free, on its list; the list alone on the available list.     *)
shmem_create(level) ==
    LET size  == Arena - HDR
        last  == free_len(level) - 1
        index == Min({get_insert_index(level, size), last})
    IN [level |-> level, order |-> <<0>>,
        blk |-> [a \in {0} |-> [size |-> size, alloc |-> FALSE, list |-> index]],
        free |-> [i \in 0 .. last |-> IF i = index THEN <<0>> ELSE <<>>],
        available |-> <<index>>, max_available |-> index, used |-> 0]

(* The list on which remove_free looks for a block, and its check.         *)
remove_index(s, a) ==
    Min({get_insert_index(s.level, s.blk[a].size), s.max_available})
removable(s, a) == s.blk[a].list = remove_index(s, a)

remove_free(s, a) ==
    LET index == remove_index(s, a)
        list  == Remove(s.free[index], a)
        p     == CHOOSE i \in 1 .. Len(s.available) : s.available[i] = index
    IN [s EXCEPT !.free[index] = list,
                 !.blk[a].list = None,
                 !.available = IF list = <<>> THEN Remove(@, index) ELSE @,
                 !.max_available =
                     IF list # <<>> \/ index # @ THEN @
                     ELSE IF p = 1 THEN free_len(s.level) ELSE s.available[p - 1]]

insert_free(s, a) ==
    LET index  == Min({get_insert_index(s.level, s.blk[a].size), free_len(s.level) - 1})
        larger == {i \in 1 .. Len(s.available) : index < s.available[i]}
        fresh  == s.free[index] = <<>>
    IN [s EXCEPT !.blk[a].list = index,
                 !.free[index] = <<a>> \o @,
                 !.available = IF ~ fresh THEN @
                               ELSE IF larger = {} THEN Append(@, index)
                               ELSE InsertAt(@, Min(larger), index),
                 !.max_available = IF fresh /\ larger = {} THEN index ELSE @]

(* The free list an allocation looks through: its own, else the next       *)
(* available one; the last available one when there is no larger.          *)
search_list(s, size) ==
    LET index  == get_alloc_index(s.level, size)
        larger == {i \in Range(s.available) : i > index}
    IN IF index >= s.max_available THEN s.max_available
       ELSE IF s.free[index] # <<>> THEN index
       ELSE IF larger = {} THEN None ELSE Min(larger)

(* Mutant: the tail keeps the bytes its header takes.                      *)
take_whole_rest(s, a, size) ==
    LET rest == s.blk[a].size - size
        r    == remove_free(s, a)
        new  == a + HDR + size
        i    == CHOOSE j \in 1 .. Len(s.order) : s.order[j] = a
    IN IF rest < HDR + MinSize
       THEN [r EXCEPT !.blk[a].alloc = TRUE, !.used = @ + s.blk[a].size]
       ELSE insert_free(
              [r EXCEPT !.blk = [b \in DOMAIN @ \cup {new} |->
                   IF b = new THEN [size |-> rest, alloc |-> FALSE, list |-> None]
                   ELSE IF b = a THEN [size |-> size, alloc |-> TRUE, list |-> None]
                   ELSE @[b]],
                 !.order = InsertAt(@, i + 1, new),
                 !.used = @ + size], new)

(* A block is taken whole unless the rest can carry a header and           *)
(* split_threshold bytes; then its tail becomes a free block of its own.   *)
take(s, a, size) ==
    LET rest == s.blk[a].size - size
        r    == remove_free(s, a)
        new  == a + HDR + size
        i    == CHOOSE j \in 1 .. Len(s.order) : s.order[j] = a
    IN IF rest < HDR + MinSize
       THEN [r EXCEPT !.blk[a].alloc = TRUE, !.used = @ + s.blk[a].size]
       ELSE insert_free(
              [r EXCEPT !.blk = [b \in DOMAIN @ \cup {new} |->
                   IF b = new THEN [size |-> rest - HDR, alloc |-> FALSE, list |-> None]
                   ELSE IF b = a THEN [size |-> size, alloc |-> TRUE, list |-> None]
                   ELSE @[b]],
                 !.order = InsertAt(@, i + 1, new),
                 !.used = @ + size], new)

(* The answer of a call: the block's address, or the error and no block.   *)
Answer(s, at, err) == [shm |-> s, at |-> at, err |-> err]

shmem_alloc(s, size) ==
    IF s.max_available = free_len(s.level) THEN Answer(s, None, "EXHAUSTED")
    ELSE LET l == search_list(s, size) IN
         IF l = None THEN Answer(s, None, "NO_FIXED_FREE_SPACE")
         ELSE IF s.free[l] = <<>> THEN Answer(s, None, "MAX_AVAILABLE_EMPTY")
         ELSE LET fit == SelectSeq(s.free[l], LAMBDA a : s.blk[a].size >= size) IN
              IF fit = <<>> THEN Answer(s, None, "FOUND_NO_FIXED")
              ELSE IF ~ removable(s, fit[1]) THEN Answer(s, None, "REMOVE_FREE")
              ELSE Answer(take(s, fit[1], size), fit[1], "NONE")

(* The first of the largest blocks of the last available list.             *)
get_max_st(s) ==
    LET list == s.free[Last(s.available)]
        best == Max({s.blk[a].size : a \in Range(list)})
    IN SelectSeq(list, LAMBDA a : s.blk[a].size = best)[1]

(* The largest block, whole.                                               *)
shmem_split_alloc(s, minsize) ==
    IF s.max_available = free_len(s.level) THEN Answer(s, None, "GET_MAX_EXHAUSTED")
    ELSE LET a == get_max_st(s) IN
         IF s.blk[a].size < minsize THEN Answer(s, None, "NO_FIXED_REQ_MINSIZE")
         ELSE IF ~ removable(s, a) THEN Answer(s, None, "SPLIT_REMOVE_FREE")
         ELSE Answer([remove_free(s, a) EXCEPT !.blk[a].alloc = TRUE,
                                               !.used = @ + s.blk[a].size], a, "NONE")

(* Mutant: the header of the swallowed block is lost.                      *)
swallow_no_header(s, a, b) ==
    [s EXCEPT !.order = Remove(@, b),
              !.blk = [c \in DOMAIN @ \ {b} |->
                          IF c = a THEN [@[a] EXCEPT !.size = @ + s.blk[b].size]
                                   ELSE @[c]]]

(* Block b, a free neighbour, is swallowed by block a, which precedes it.  *)
swallow(s, a, b) ==
    [s EXCEPT !.order = Remove(@, b),
              !.blk = [c \in DOMAIN @ \ {b} |->
                          IF c = a THEN [@[a] EXCEPT !.size = @ + HDR + s.blk[b].size]
                                   ELSE @[c]]]

(* The freed block joins the free block after it, then the one before it.  *)
shmem_free(s, a) ==
    LET i     == CHOOSE j \in 1 .. Len(s.order) : s.order[j] = a
        freed == [s EXCEPT !.blk[a].alloc = FALSE, !.used = @ - s.blk[a].size]
        next  == i < Len(s.order) /\ ~ s.blk[s.order[i + 1]].alloc
                   /\ s.order[i + 1] = a + HDR + s.blk[a].size
        prev  == i > 1 /\ ~ s.blk[s.order[i - 1]].alloc
                   /\ a = s.order[i - 1] + HDR + s.blk[s.order[i - 1]].size
        after  == s.order[i + 1]
        before == s.order[i - 1]
        s1 == IF next THEN swallow(remove_free(freed, after), a, after) ELSE freed
        s2 == IF prev THEN swallow(remove_free(s1, before), before, a) ELSE s1
    IN IF ~ s.blk[a].alloc THEN Answer(s, a, "FREE_NONALLOCED")
       ELSE IF next /\ ~ removable(freed, after) THEN Answer(freed, a, "FREE_REMOVE_NEXT")
       ELSE IF prev /\ ~ removable(s1, before) THEN Answer(s1, a, "FREE_REMOVE_PREV")
       ELSE Answer(insert_free(s2, IF prev THEN before ELSE a), a, "NONE")

-----------------------------------------------------------------------------
Allocated(s) == {a \in DOMAIN s.blk : s.blk[a].alloc}

(* The blocks tile the arena in the order of the order list, no two free   *)
(* blocks are neighbours, and a block is on a free list exactly when it is *)
(* free: the list its size selects, once.                                  *)
Tiled(s) ==
    /\ s.order[1] = 0
    /\ \A i \in 1 .. Len(s.order) :
          LET a == s.order[i] IN
          /\ a + HDR + s.blk[a].size = IF i = Len(s.order) THEN Arena ELSE s.order[i + 1]
          /\ i < Len(s.order) => s.blk[a].alloc \/ s.blk[s.order[i + 1]].alloc
    /\ Range(s.order) = DOMAIN s.blk

(* The free lists hold the free blocks, the available list the indexes of  *)
(* the non-empty free lists in increasing order, and max_available is its  *)
(* last index (free_len when there is none).                               *)
Indexed(s) ==
    LET last == free_len(s.level) - 1 IN
    /\ \A a \in DOMAIN s.blk :
          IF s.blk[a].alloc THEN s.blk[a].list = None
          ELSE s.blk[a].list = Min({get_insert_index(s.level, s.blk[a].size), last})
    /\ \A i \in 0 .. last :
          /\ IsInjective(s.free[i])
          /\ Range(s.free[i]) = {a \in DOMAIN s.blk : s.blk[a].list = i}
    /\ Range(s.available) = {i \in 0 .. last : s.free[i] # <<>>}
    /\ \A i \in 1 .. Len(s.available) - 1 : s.available[i] < s.available[i + 1]
    /\ s.max_available = IF s.available = <<>> THEN last + 1 ELSE Last(s.available)
=============================================================================
