------------------------------ MODULE MemBlocks ------------------------------
(***************************************************************************)
(* The block store of core/dfs_mblks.cpp and the spin lock of              *)
(* core/dfs_lock.cpp that guards it.  Threads take and give back blocks;   *)
(* the spin lock is one word that threads compare and swap.  The accesses  *)
(* inside the lock are steps of their own, so that a second thread would   *)
(* be seen to interleave with them if the lock let it in.  A block on loan *)
(* has its next field pointing at the store.                               *)
(***************************************************************************)
EXTENDS Integers, Sequences

CONSTANTS Threads, Blocks,
          NB            \* count of mem_mblks_new_fn, the number of blocks

VARIABLES lock,         \* dfs_atomic_lock_t.lock: "OFF" or "ON"
          free_blks,    \* the list of free blocks
          cold_count,   \* blocks the store believes free
          hot_count,    \* blocks the store believes on loan
          at,           \* where each thread is
          blk,          \* pdata of the call each thread is in
          held          \* the blocks each thread has on loan

mb_vars == <<lock, free_blks, cold_count, hot_count, at, blk, held>>

(* The blocks in the order mem_mblks_new_fn links them.                    *)
MbInit == /\ lock = "OFF"
          /\ free_blks \in [1 .. NB -> Blocks]
          /\ \A b \in Blocks : \E i \in 1 .. NB : free_blks[i] = b
          /\ \A i, j \in 1 .. NB : free_blks[i] = free_blks[j] => i = j
          /\ cold_count = NB
          /\ hot_count = 0
          /\ at = [t \in Threads |-> "idle"]
          /\ blk \in [Threads -> Blocks]
          /\ held = [t \in Threads |-> {}]

mem_get(t) == /\ at[t] = "idle"
              /\ at' = [at EXCEPT ![t] = "get_lock"]
              /\ UNCHANGED <<lock, free_blks, cold_count, hot_count, blk, held>>

mem_put(t, b) == /\ at[t] = "idle" /\ b \in held[t]
                 /\ at' = [at EXCEPT ![t] = "put_lock"]
                 /\ blk' = [blk EXCEPT ![t] = b]
                 /\ held' = [held EXCEPT ![t] = @ \ {b}]
                 /\ UNCHANGED <<lock, free_blks, cold_count, hot_count>>

(* Mutant: the word is set whatever its old value.                         *)
lock_on_blind(t, from, to) ==
    /\ at[t] = from
    /\ lock' = "ON"
    /\ at' = [at EXCEPT ![t] = to]
    /\ UNCHANGED <<free_blks, cold_count, hot_count, blk, held>>

(* dfs_atomic_lock_on: the compare-and-swap that ends the spinning.        *)
lock_on(t, from, to) ==
    /\ at[t] = from
    /\ lock = "OFF"
    /\ lock' = "ON"
    /\ at' = [at EXCEPT ![t] = to]
    /\ UNCHANGED <<free_blks, cold_count, hot_count, blk, held>>

(* Inside the lock: a block is unlinked, then counted; or there is none.   *)
get_unlink(t) ==
    /\ at[t] = "get"
    /\ cold_count # 0
    /\ blk' = [blk EXCEPT ![t] = Head(free_blks)]
    /\ free_blks' = Tail(free_blks)
    /\ at' = [at EXCEPT ![t] = "get_count"]
    /\ UNCHANGED <<lock, cold_count, hot_count, held>>

get_count(t) ==
    /\ at[t] = "get_count"
    /\ hot_count' = hot_count + 1
    /\ cold_count' = cold_count - 1
    /\ at' = [at EXCEPT ![t] = "get_off"]
    /\ UNCHANGED <<lock, free_blks, blk, held>>

get_none(t) ==
    /\ at[t] = "get"
    /\ cold_count = 0
    /\ at' = [at EXCEPT ![t] = "off"]
    /\ UNCHANGED <<lock, free_blks, cold_count, hot_count, blk, held>>

(* Inside the lock: a returned block is counted, then linked.              *)
put_count(t) ==
    /\ at[t] = "put"
    /\ hot_count' = hot_count - 1
    /\ cold_count' = cold_count + 1
    /\ at' = [at EXCEPT ![t] = "put_link"]
    /\ UNCHANGED <<lock, free_blks, blk, held>>

put_link(t) ==
    /\ at[t] = "put_link"
    /\ free_blks' = <<blk[t]>> \o free_blks
    /\ at' = [at EXCEPT ![t] = "off"]
    /\ UNCHANGED <<lock, cold_count, hot_count, blk, held>>

(* Mutant: mem_get returns when it has no block and keeps the lock.        *)
lock_off_kept(t) ==
    /\ at[t] \in {"get_off", "off"}
    /\ lock' = IF at[t] = "get_off" THEN "OFF" ELSE lock
    /\ held' = [held EXCEPT ![t] = IF at[t] = "get_off" THEN @ \cup {blk[t]} ELSE @]
    /\ at' = [at EXCEPT ![t] = "idle"]
    /\ UNCHANGED <<free_blks, cold_count, hot_count, blk>>

(* dfs_atomic_lock_off, and the return of the block.  A word that is       *)
(* already OFF is left alone; otherwise the swap spins until it sees ON.   *)
lock_off(t) ==
    /\ at[t] \in {"get_off", "off"}
    /\ lock' = "OFF"
    /\ held' = [held EXCEPT ![t] = IF at[t] = "get_off" THEN @ \cup {blk[t]} ELSE @]
    /\ at' = [at EXCEPT ![t] = "idle"]
    /\ UNCHANGED <<free_blks, cold_count, hot_count, blk>>

MbInside(t) == \/ get_unlink(t) \/ get_count(t) \/ get_none(t)
               \/ put_count(t) \/ put_link(t) \/ lock_off(t)

MbStep(t) == \/ mem_get(t)
             \/ \E b \in held[t] : mem_put(t, b)
             \/ lock_on(t, "get_lock", "get")
             \/ lock_on(t, "put_lock", "put")
             \/ MbInside(t)

MbNext == \E t \in Threads : MbStep(t)

(* The scheduler runs every thread, so a thread inside the lock goes on.   *)
(* No fairness for the compare-and-swap: a spinning thread may be unlucky. *)
MbFairness == \A t \in Threads : WF_mb_vars(MbInside(t))

MbSpec == MbInit /\ [][MbNext]_mb_vars

MbFairSpec == MbSpec /\ MbFairness

-----------------------------------------------------------------------------
Locked == {"get", "get_count", "get_off", "put", "put_link", "off"}
Carrying == {"get_count", "get_off", "put_lock", "put", "put_link"}

Own(t) == held[t] \cup (IF at[t] \in Carrying THEN {blk[t]} ELSE {})

OnList(b) == \E i \in 1 .. Len(free_blks) : free_blks[i] = b

MbTypeOK == /\ lock \in {"OFF", "ON"}
            /\ free_blks \in Seq(Blocks)
            /\ cold_count \in Int /\ hot_count \in Int
            /\ at \in [Threads -> Locked \cup Carrying \cup {"idle", "get_lock"}]
            /\ blk \in [Threads -> Blocks]
            /\ held \in [Threads -> SUBSET Blocks]

(* One thread at a time is between dfs_atomic_lock_on and _off.            *)
OneInside == /\ \A t \in Threads : at[t] \in Locked => lock = "ON"
             /\ \A t, u \in Threads : at[t] \in Locked /\ at[u] \in Locked => t = u

(* Whatever mem_get and mem_put of the threads do to each other, each      *)
(* block is once on the list or with exactly one thread, and none is lost. *)
BlocksConserved ==
    /\ \A i, j \in 1 .. Len(free_blks) : free_blks[i] = free_blks[j] => i = j
    /\ \A b \in Blocks : OnList(b) \/ \E t \in Threads : b \in Own(t)
    /\ \A t \in Threads : \A b \in Own(t) :
          ~ OnList(b) /\ \A u \in Threads : b \in Own(u) => u = t

(* cold_count is the length of the list whenever a thread tests it, so     *)
(* mem_get never walks past the last block.                                *)
ColdIsListed ==
    cold_count = Len(free_blks)
        + IF \E t \in Threads : at[t] \in {"get_count", "put_link"} THEN 1 ELSE 0

(* A block in transit is not also on loan to the thread that carries it.   *)
CarriedOnce == \A t \in Threads : at[t] \in Carrying => blk[t] \notin held[t]

(* The store is sound under any interleaving of its callers.               *)
MbSafe == OneInside /\ BlocksConserved /\ ColdIsListed /\ CarriedOnce

(* The lock is always given back: no path through mem_get or mem_put       *)
(* returns with it.                                                        *)
LockReleased == []<>(lock = "OFF")
=============================================================================
