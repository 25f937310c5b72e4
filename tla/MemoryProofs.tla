----------------------------- MODULE MemoryProofs -----------------------------
(***************************************************************************)
(* The allocators of the library.  The store of blocks, for any set of     *)
(* threads and any set of blocks: the inductive invariant is MbInv, for    *)
(* mutual exclusion, the count of the list and the ownership of the blocks *)
(* need each other, because the list is popped on the strength of          *)
(* cold_count and only the lock keeps the count and the list in step.  The *)
(* half-life pool, for any sizes and whatever malloc returns.  The memory  *)
(* pool with its arrays, for any sizes and any alignment.                  *)
(***************************************************************************)
EXTENDS MemBlocks, HalfLifePool, MemPool, BasicFacts

MbInv == MbTypeOK /\ MbSafe

(* A step that leaves the list alone and every thread with the blocks it   *)
(* had keeps the blocks conserved.                                         *)
LEMMA OwnersKept ==
    ASSUME BlocksConserved, free_blks' = free_blks,
           \A u \in Threads : Own(u)' = Own(u)
    PROVE  BlocksConserved'
  <1>1. \A b : OnList(b)' <=> OnList(b)
    BY DEF OnList
  <1>2. QED
    BY <1>1 DEF BlocksConserved

(* A step of t that enters, leaves or moves inside the lock moves only t.  *)
LEMMA OthersStay ==
    ASSUME MbTypeOK, NEW t \in Threads, NEW s, at' = [at EXCEPT ![t] = s]
    PROVE  at'[t] = s /\ \A u \in Threads : u # t => at'[u] = at[u]
  BY DEF MbTypeOK

(* The store as mem_mblks_new_fn leaves it.                                *)
LEMMA InitInv == ASSUME NB \in Nat, MbInit PROVE MbInv
  <1>1. Len(free_blks) = NB /\ free_blks \in Seq(Blocks)
    BY DEF MbInit
  <1>2. MbTypeOK
    BY <1>1 DEF MbInit, MbTypeOK, Locked, Carrying
  <1>3. OneInside /\ ColdIsListed /\ CarriedOnce
    BY <1>1 DEF MbInit, OneInside, ColdIsListed, CarriedOnce, Locked
  <1>4. \A t \in Threads : Own(t) = {}
    BY DEF MbInit, Own, Carrying
  <1>5. BlocksConserved
    BY <1>1, <1>4 DEF MbInit, BlocksConserved, OnList
  <1>6. QED
    BY <1>2, <1>3, <1>5 DEF MbInv, MbSafe

(* Entering mem_get or mem_put, before the lock is tried.                  *)
LEMMA CallInv ==
    ASSUME MbInv, NEW t \in Threads,
           mem_get(t) \/ \E b \in held[t] : mem_put(t, b)
    PROVE  MbInv'
  <1> USE DEF MbInv, MbSafe
  <1>1. CASE mem_get(t)
    <2>1. at'[t] = "get_lock" /\ \A u \in Threads : u # t => at'[u] = at[u]
      BY <1>1, OthersStay DEF mem_get
    <2>2. MbTypeOK'
      BY <1>1 DEF mem_get, MbTypeOK
    <2>3. OneInside' /\ ColdIsListed' /\ CarriedOnce'
      BY <1>1, <2>1 DEF mem_get, OneInside, ColdIsListed, CarriedOnce, Locked, Carrying
    <2>4. \A u \in Threads : Own(u)' = Own(u)
      BY <1>1, <2>1 DEF mem_get, Own, Carrying
    <2>5. QED
      BY <1>1, <2>2, <2>3, <2>4, OwnersKept DEF mem_get
  <1>2. ASSUME NEW b \in held[t], mem_put(t, b) PROVE MbInv'
    <2>1. at'[t] = "put_lock" /\ \A u \in Threads : u # t => at'[u] = at[u]
      BY <1>2, OthersStay DEF mem_put
    <2>2. MbTypeOK'
      BY <1>2 DEF mem_put, MbTypeOK, Carrying
    <2>3. OneInside' /\ ColdIsListed'
      BY <1>2, <2>1 DEF mem_put, OneInside, ColdIsListed, Locked
    <2>6. CarriedOnce'
      BY <1>2, <2>1 DEF mem_put, MbTypeOK, CarriedOnce
    <2>4. ASSUME NEW u \in Threads PROVE Own(u)' = Own(u)
      <3>1. CASE u = t
        <4>1. held'[t] = held[t] \ {b} /\ blk'[t] = b /\ at[t] = "idle"
          BY <1>2 DEF mem_put, MbTypeOK
        <4>2. QED
          BY <3>1, <4>1, <2>1, <1>2 DEF Own, Carrying
      <3>2. CASE u # t
        BY <3>2, <2>1, <1>2 DEF mem_put, MbTypeOK, Own
      <3>3. QED
        BY <3>1, <3>2
    <2>5. QED
      BY <1>2, <2>2, <2>3, <2>4, <2>6, OwnersKept DEF mem_put
  <1>3. QED
    BY <1>1, <1>2

(* The swap that succeeds lets a thread in only while nobody is inside.    *)
LEMMA LockInv ==
    ASSUME MbInv, NEW t \in Threads,
           NEW from, NEW to,
           \/ from = "get_lock" /\ to = "get"
           \/ from = "put_lock" /\ to = "put",
           lock_on(t, from, to)
    PROVE  MbInv'
  <1> USE DEF MbInv, MbSafe
  <1>1. at'[t] = to /\ \A u \in Threads : u # t => at'[u] = at[u]
    BY OthersStay DEF lock_on
  <1>2. MbTypeOK'
    BY DEF lock_on, MbTypeOK, Locked, Carrying
  <1>3. OneInside'
    BY <1>1 DEF lock_on, OneInside
  <1>4. ColdIsListed'
    BY <1>1 DEF lock_on, ColdIsListed, OneInside, Locked
  <1>5. \A u \in Threads : Own(u)' = Own(u)
    BY <1>1 DEF lock_on, Own, Carrying
  <1>6. CarriedOnce'
    BY <1>1 DEF lock_on, CarriedOnce, Carrying
  <1>7. QED
    BY <1>2, <1>3, <1>4, <1>5, <1>6, OwnersKept DEF lock_on

(* Inside the lock a thread is alone, so it may rely on the count.         *)
LEMMA AloneInside ==
    ASSUME MbInv, NEW t \in Threads, at[t] \in Locked
    PROVE  /\ lock = "ON"
           /\ \A u \in Threads : at[u] \in Locked => u = t
           /\ cold_count = Len(free_blks)
                 + IF at[t] \in {"get_count", "put_link"} THEN 1 ELSE 0
  <1>1. lock = "ON" /\ \A u \in Threads : at[u] \in Locked => u = t
    BY DEF MbInv, MbSafe, OneInside
  <1>2. (\E u \in Threads : at[u] \in {"get_count", "put_link"})
           <=> at[t] \in {"get_count", "put_link"}
    BY <1>1 DEF Locked
  <1>3. QED
    BY <1>1, <1>2 DEF MbInv, MbSafe, ColdIsListed

(* mem_get pops the list: the head leaves it and goes to one thread.       *)
LEMMA UnlinkInv ==
    ASSUME MbInv, NEW t \in Threads, get_unlink(t)
    PROVE  MbInv'
  <1> DEFINE h == Head(free_blks)
  <1>1. at'[t] = "get_count" /\ \A u \in Threads : u # t => at'[u] = at[u]
    BY OthersStay DEF get_unlink, MbInv
  <1>2. /\ at[t] = "get" /\ lock = "ON" /\ cold_count = Len(free_blks)
        /\ \A u \in Threads : at[u] \in Locked => u = t
    BY AloneInside DEF get_unlink, Locked
  <1>3. /\ free_blks \in Seq(Blocks) /\ Len(free_blks) \in Nat /\ Len(free_blks) > 0
    BY <1>2 DEF get_unlink, MbInv, MbTypeOK
  <1>4. /\ h \in Blocks /\ h = free_blks[1]
        /\ free_blks' \in Seq(Blocks)
        /\ Len(free_blks') = Len(free_blks) - 1
        /\ \A i \in 1 .. Len(free_blks') : free_blks'[i] = free_blks[i + 1]
    BY <1>3 DEF get_unlink
  <1>5. MbTypeOK'
    BY <1>4 DEF get_unlink, MbInv, MbTypeOK, Locked
  <1>6. OneInside'
    BY <1>1, <1>2 DEF get_unlink, OneInside, Locked
  <1>7. ColdIsListed'
    <2>1. (\E u \in Threads : at[u] \in {"get_count", "put_link"})'
      BY <1>1
    <2>2. QED
      BY <2>1, <1>2, <1>3, <1>4 DEF ColdIsListed, get_unlink
  <1>8. Own(t)' = Own(t) \cup {h} /\ \A u \in Threads : u # t => Own(u)' = Own(u)
    <2>1. /\ blk'[t] = h /\ held' = held
          /\ \A u \in Threads : u # t => blk'[u] = blk[u]
      BY DEF get_unlink, MbInv, MbTypeOK
    <2>2. QED
      BY <2>1, <1>1, <1>2 DEF Own, Carrying
  <1>9. \A b : OnList(b)' <=> OnList(b) /\ b # h
    <2>1. BlocksConserved
      BY DEF MbInv, MbSafe
    <2>2. ASSUME NEW b, OnList(b)' PROVE OnList(b) /\ b # h
      <3>1. PICK i \in 1 .. Len(free_blks') : free_blks'[i] = b
        BY <2>2 DEF OnList
      <3>2. i + 1 \in 1 .. Len(free_blks) /\ free_blks[i + 1] = b /\ i + 1 # 1
        BY <3>1, <1>3, <1>4
      <3>3. QED
        BY <3>2, <2>1, <1>3, <1>4 DEF OnList, BlocksConserved
    <2>3. ASSUME NEW b, OnList(b), b # h PROVE OnList(b)'
      <3>1. PICK i \in 1 .. Len(free_blks) : free_blks[i] = b
        BY <2>3 DEF OnList
      <3>2. i # 1
        BY <3>1, <2>3, <1>4
      <3>3. i - 1 \in 1 .. Len(free_blks') /\ free_blks'[i - 1] = b
        BY <3>1, <3>2, <1>3, <1>4
      <3>4. QED
        BY <3>3 DEF OnList
    <2>4. QED
      BY <2>2, <2>3
  <1>10. BlocksConserved'
    <2>1. BlocksConserved /\ OnList(h)
      BY <1>3, <1>4 DEF MbInv, MbSafe, OnList
    <2>2. (\A i, j \in 1 .. Len(free_blks) : free_blks[i] = free_blks[j] => i = j)'
      <3>1. SUFFICES ASSUME NEW i \in 1 .. Len(free_blks'), NEW j \in 1 .. Len(free_blks'),
                            free_blks'[i] = free_blks'[j]
                     PROVE  i = j
        OBVIOUS
      <3>2. i + 1 \in 1 .. Len(free_blks) /\ j + 1 \in 1 .. Len(free_blks)
        BY <1>3, <1>4
      <3>3. i + 1 = j + 1
        BY <3>1, <3>2, <1>4, <2>1 DEF BlocksConserved
      <3>4. QED
        BY <3>3
    <2>3. (\A b \in Blocks : OnList(b) \/ \E u \in Threads : b \in Own(u))'
      BY <2>1, <1>8, <1>9 DEF BlocksConserved
    <2>4. ASSUME NEW u \in Threads, NEW b \in Own(u)'
          PROVE  ~ OnList(b)' /\ \A v \in Threads : b \in Own(v)' => v = u
      BY <2>1, <2>4, <1>8, <1>9 DEF BlocksConserved
    <2>5. QED
      BY <2>2, <2>3, <2>4 DEF BlocksConserved
  <1>11. CarriedOnce'
    <2>1. h \notin held[t]
      BY <1>3, <1>4 DEF MbInv, MbSafe, BlocksConserved, OnList, Own
    <2>2. QED
      BY <2>1, <1>1 DEF get_unlink, MbInv, MbSafe, MbTypeOK, CarriedOnce
  <1>12. QED
    BY <1>5, <1>6, <1>7, <1>10, <1>11 DEF MbInv, MbSafe

(* mem_put pushes the block: it leaves its thread and is listed once.      *)
LEMMA LinkInv ==
    ASSUME MbInv, NEW t \in Threads, put_link(t)
    PROVE  MbInv'
  <1>0. PICK h : h = blk[t]
    OBVIOUS
  <1>1. at'[t] = "off" /\ \A u \in Threads : u # t => at'[u] = at[u]
    BY OthersStay DEF put_link, MbInv
  <1>2. /\ at[t] = "put_link" /\ lock = "ON" /\ cold_count = Len(free_blks) + 1
        /\ \A u \in Threads : at[u] \in Locked => u = t
    BY AloneInside DEF put_link, Locked
  <1>3. h \in Blocks /\ free_blks \in Seq(Blocks) /\ Len(free_blks) \in Nat
    BY <1>0 DEF MbInv, MbTypeOK
  <1>4. /\ free_blks' \in Seq(Blocks)
        /\ Len(free_blks') = Len(free_blks) + 1
        /\ free_blks'[1] = h
        /\ \A i \in 1 .. Len(free_blks) : free_blks'[i + 1] = free_blks[i]
    BY <1>0, <1>3 DEF put_link
  <1>5. MbTypeOK'
    BY <1>4 DEF put_link, MbInv, MbTypeOK, Locked
  <1>6. OneInside'
    BY <1>1, <1>2 DEF put_link, OneInside, Locked
  <1>7. ColdIsListed'
    <2>1. ~ (\E u \in Threads : at[u] \in {"get_count", "put_link"})'
      BY <1>1, <1>2 DEF Locked
    <2>2. QED
      BY <2>1, <1>2, <1>3, <1>4 DEF ColdIsListed, put_link
  <1>8. Own(t) = Own(t)' \cup {h} /\ \A u \in Threads : u # t => Own(u)' = Own(u)
    BY <1>0, <1>1, <1>2 DEF put_link, Own, Carrying
  <1>9. \A b : OnList(b)' <=> OnList(b) \/ b = h
    <2>1. ASSUME NEW b, OnList(b)', b # h PROVE OnList(b)
      <3>1. PICK i \in 1 .. Len(free_blks') : free_blks'[i] = b
        BY <2>1 DEF OnList
      <3>2. i # 1
        BY <3>1, <2>1, <1>4
      <3>3. i - 1 \in 1 .. Len(free_blks) /\ free_blks[i - 1] = b
        BY <3>1, <3>2, <1>3, <1>4
      <3>4. QED
        BY <3>3 DEF OnList
    <2>2. ASSUME NEW b, OnList(b) PROVE OnList(b)'
      <3>1. PICK i \in 1 .. Len(free_blks) : free_blks[i] = b
        BY <2>2 DEF OnList
      <3>2. i + 1 \in 1 .. Len(free_blks') /\ free_blks'[i + 1] = b
        BY <3>1, <1>3, <1>4
      <3>3. QED
        BY <3>2 DEF OnList
    <2>3. OnList(h)'
      BY <1>3, <1>4 DEF OnList
    <2>4. QED
      BY <2>1, <2>2, <2>3
  <1>10. BlocksConserved'
    <2>1. BlocksConserved /\ h \in Own(t) /\ ~ OnList(h)
      BY <1>8 DEF MbInv, MbSafe, BlocksConserved
    <2>2. h \notin Own(t)'
      <3>1. held' = held /\ at'[t] \notin Carrying
        BY <1>1 DEF put_link, Carrying
      <3>2. h \notin held[t]
        BY <1>0, <1>2 DEF MbInv, MbSafe, CarriedOnce, Carrying
      <3>3. QED
        BY <3>1, <3>2 DEF Own
    <2>3. (\A i, j \in 1 .. Len(free_blks) : free_blks[i] = free_blks[j] => i = j)'
      <3>1. SUFFICES ASSUME NEW i \in 1 .. Len(free_blks'), NEW j \in 1 .. Len(free_blks'),
                            free_blks'[i] = free_blks'[j]
                     PROVE  i = j
        OBVIOUS
      <3>2. \A k \in 1 .. Len(free_blks') :
               k = 1 \/ (k - 1 \in 1 .. Len(free_blks) /\ free_blks'[k] = free_blks[k - 1])
        BY <1>3, <1>4
      <3>3. \A k \in 1 .. Len(free_blks') : free_blks'[k] = h => k = 1
        BY <3>2, <2>1 DEF OnList
      <3>4. CASE i = 1 \/ j = 1
        BY <3>1, <3>3, <3>4, <1>4
      <3>5. CASE i # 1 /\ j # 1
        <4>1. i - 1 = j - 1
          BY <3>1, <3>2, <3>5, <2>1 DEF BlocksConserved
        <4>2. QED
          BY <4>1
      <3>6. QED
        BY <3>4, <3>5
    <2>4. (\A b \in Blocks : OnList(b) \/ \E u \in Threads : b \in Own(u))'
      BY <2>1, <1>8, <1>9 DEF BlocksConserved
    <2>5. ASSUME NEW u \in Threads, NEW b \in Own(u)'
          PROVE  ~ OnList(b)' /\ \A v \in Threads : b \in Own(v)' => v = u
      BY <2>1, <2>2, <2>5, <1>8, <1>9 DEF BlocksConserved
    <2>6. QED
      BY <2>3, <2>4, <2>5 DEF BlocksConserved
  <1>11. CarriedOnce'
    BY <1>1 DEF put_link, MbInv, MbSafe, CarriedOnce, Carrying
  <1>12. QED
    BY <1>5, <1>6, <1>7, <1>10, <1>11 DEF MbInv, MbSafe

(* The steps inside the lock that move no block between list and threads.  *)
LEMMA CountInv ==
    ASSUME MbInv, NEW t \in Threads,
           get_count(t) \/ get_none(t) \/ put_count(t)
    PROVE  MbInv'
  <1> DEFINE s == IF at[t] = "get_count" THEN "get_off"
                  ELSE IF at[t] = "get" THEN "off" ELSE "put_link"
  <1>1. at'[t] = s /\ \A u \in Threads : u # t => at'[u] = at[u]
    BY OthersStay DEF get_count, get_none, put_count, MbInv
  <1>2. /\ at[t] \in Locked /\ lock = "ON"
        /\ \A u \in Threads : at[u] \in Locked => u = t
        /\ cold_count = Len(free_blks)
              + IF at[t] \in {"get_count", "put_link"} THEN 1 ELSE 0
    BY AloneInside DEF get_count, get_none, put_count, Locked
  <1>3. Len(free_blks) \in Int /\ cold_count \in Int
    BY DEF MbInv, MbTypeOK
  <1>4. MbTypeOK'
    BY <1>3 DEF get_count, get_none, put_count, MbInv, MbTypeOK, Locked
  <1>5. OneInside'
    BY <1>1, <1>2 DEF get_count, get_none, put_count, OneInside, Locked
  <1>6. ColdIsListed'
    <2>1. (\E u \in Threads : at[u] \in {"get_count", "put_link"})' <=> s = "put_link"
      BY <1>1, <1>2 DEF Locked
    <2>2. QED
      BY <2>1, <1>2, <1>3 DEF ColdIsListed, get_count, get_none, put_count
  <1>7. \A u \in Threads : Own(u)' = Own(u)
    BY <1>1 DEF get_count, get_none, put_count, Own, Carrying
  <1>8. BlocksConserved'
    BY <1>7, OwnersKept DEF get_count, get_none, put_count, MbInv, MbSafe
  <1>9. CarriedOnce'
    BY <1>1 DEF get_count, get_none, put_count, MbInv, MbSafe, CarriedOnce, Carrying
  <1>10. QED
    BY <1>4, <1>5, <1>6, <1>8, <1>9 DEF MbInv, MbSafe

(* The lock is left and the popped block handed to the caller.             *)
LEMMA OffInv ==
    ASSUME MbInv, NEW t \in Threads, lock_off(t)
    PROVE  MbInv'
  <1>1. at'[t] = "idle" /\ \A u \in Threads : u # t => at'[u] = at[u]
    BY OthersStay DEF lock_off, MbInv
  <1>2. /\ at[t] \in {"get_off", "off"}
        /\ \A u \in Threads : at[u] \in Locked => u = t
        /\ cold_count = Len(free_blks)
              + IF at[t] \in {"get_count", "put_link"} THEN 1 ELSE 0
    BY AloneInside DEF lock_off, Locked
  <1>3. /\ held'[t] = IF at[t] = "get_off" THEN held[t] \cup {blk[t]} ELSE held[t]
        /\ \A u \in Threads : u # t => held'[u] = held[u]
    BY DEF lock_off, MbInv, MbTypeOK
  <1>4. MbTypeOK'
    BY DEF lock_off, MbInv, MbTypeOK
  <1>5. OneInside'
    BY <1>1, <1>2 DEF lock_off, OneInside, Locked
  <1>6. ColdIsListed'
    <2>1. ~ (\E u \in Threads : at[u] \in {"get_count", "put_link"})'
      BY <1>1, <1>2 DEF Locked
    <2>2. QED
      BY <2>1, <1>2 DEF ColdIsListed, lock_off
  <1>7. ASSUME NEW u \in Threads PROVE Own(u)' = Own(u)
    BY <1>1, <1>2, <1>3 DEF lock_off, Own, Carrying
  <1>8. BlocksConserved'
    BY <1>7, OwnersKept DEF lock_off, MbInv, MbSafe
  <1>9. CarriedOnce'
    BY <1>1, <1>3 DEF lock_off, MbInv, MbSafe, CarriedOnce, Carrying
  <1>10. QED
    BY <1>4, <1>5, <1>6, <1>8, <1>9 DEF MbInv, MbSafe

(* Under any interleaving of mem_get and mem_put the spin lock admits one  *)
(* thread, cold_count counts the list and no block is lost or lent twice.  *)
THEOREM StoreSound == ASSUME NB \in Nat PROVE MbSpec => []MbSafe
  <1>1. MbInit => MbInv
    BY InitInv
  <1>2. MbInv /\ [MbNext]_mb_vars => MbInv'
    <2>1. SUFFICES ASSUME MbInv, [MbNext]_mb_vars PROVE MbInv'
      OBVIOUS
    <2>2. CASE UNCHANGED mb_vars
      BY <2>1, <2>2 DEF mb_vars, MbInv, MbTypeOK, MbSafe, OneInside, BlocksConserved,
                        ColdIsListed, CarriedOnce, Own, OnList
    <2>3. ASSUME NEW t \in Threads, MbStep(t) PROVE MbInv'
      BY <2>1, <2>3, CallInv, LockInv, UnlinkInv, LinkInv, CountInv, OffInv
         DEF MbStep, MbInside
    <2>4. QED
      BY <2>1, <2>2, <2>3 DEF MbNext
  <1>3. MbInv => MbSafe
    BY DEF MbInv
  <1>4. QED
    BY <1>1, <1>2, <1>3, PTL DEF MbSpec
-----------------------------------------------------------------------------
(* The half-life pool.  Its invariant is HalfLifeSound with the types of   *)
(* its fields and the order of the sizes hl_mempool_create checked.        *)
HlInv == /\ max_size \in Nat \ {0} /\ min_size \in Nat /\ min_size <= max_size
         /\ free_q \in Seq(Node) /\ refused \in BOOLEAN
         /\ HalfLifeSound

(* The pool as hl_mempool_create leaves it.                                *)
LEMMA HlStart == HlInit => HlInv
<1> SUFFICES ASSUME HlInit PROVE HlInv
  OBVIOUS
<1>1. max_size \in Nat \ {0} /\ min_size \in Nat /\ min_size <= max_size
  BY HlAssumption DEF HlInit
<1>2. free_q \in [1 .. max_size -> Node] /\ IsInjective(free_q)
  BY DEF HlInit
<1>3. free_q \in Seq(Node) /\ Len(free_q) = max_size
  BY <1>1, <1>2
<1>4. taken = {} /\ refused = FALSE /\ free_size = max_size
  BY DEF HlInit
<1>5. ToSet(free_q) \cap taken = {} /\ taken \subseteq Node
  BY <1>4
<1>6. refused \in BOOLEAN /\ (refused => free_q = <<>>)
  BY <1>4
<1>7. free_size = Len(free_q) /\ free_size <= max_size
  BY <1>1, <1>3, <1>4
<1> QED
  BY <1>1, <1>2, <1>3, <1>5, <1>6, <1>7 DEF HlInv, HalfLifeSound

(* Whatever mallocs succeed, do_expand leaves a queue of different nodes   *)
(* that nobody has, of at most max_size, and a queue that is empty still   *)
(* only together with an error.                                            *)
LEMMA Expanded ==
  ASSUME HlInv, NEW e \in do_expand
  PROVE  /\ e.q \in Seq(Node) /\ IsInjective(e.q) /\ Len(e.q) <= max_size
         /\ ToSet(e.q) \cap taken = {}
         /\ e.q = <<>> => ~e.ok
<1>0. /\ max_size \in Nat \ {0} /\ min_size \in Nat /\ free_q \in Seq(Node)
      /\ Len(free_q) \in Nat /\ free_size = Len(free_q) /\ Len(free_q) <= max_size
      /\ IsInjective(free_q) /\ ToSet(free_q) \cap taken = {}
  BY DEF HlInv, HalfLifeSound
<1>1. CASE free_size > min_size
  <2>1. e.q = free_q
    BY <1>1 DEF do_expand
  <2>2. free_q # <<>>
    BY <1>0, <1>1
  <2> QED
    BY <1>0, <2>1, <2>2
<1>2. CASE ~(free_size > min_size)
  <2>1. PICK k \in 0 .. max_size - free_size : \E m \in Mallocs(k) :
          e = [q |-> free_q \o m, ok |-> Len(m) = max_size - free_size]
    BY <1>2 DEF do_expand
  <2>m. PICK m \in Mallocs(k) : e = [q |-> free_q \o m, ok |-> Len(m) = max_size - free_size]
    BY <2>1
  <2>2. m \in [1 .. k -> Node \ malloced] /\ IsInjective(m)
    BY DEF Mallocs
  <2>3. k \in Nat /\ m \in Seq(Node) /\ Len(m) = k /\ DOMAIN m = 1 .. k
    BY <1>0, <2>1, <2>2
  <2>4. \A a \in DOMAIN m : m[a] \notin ToSet(free_q) /\ m[a] \notin taken
    BY <2>2, <2>3 DEF malloced
  <2>5. \A a \in DOMAIN free_q, b \in DOMAIN m : free_q[a] # m[b]
    BY <2>4 DEF ToSet
  <2>6. /\ free_q \o m \in Seq(Node) /\ IsInjective(free_q \o m)
        /\ \A a \in DOMAIN (free_q \o m) :
             \/ a \in DOMAIN free_q /\ (free_q \o m)[a] = free_q[a]
             \/ a - Len(free_q) \in DOMAIN m /\ (free_q \o m)[a] = m[a - Len(free_q)]
    BY <1>0, <2>2, <2>3, <2>5, SeqConcat
  <2>7. Len(free_q \o m) = Len(free_q) + k
    BY <1>0, <2>3
  <2>8. ToSet(free_q \o m) \cap taken = {}
    <3> SUFFICES ASSUME NEW a \in DOMAIN (free_q \o m) PROVE (free_q \o m)[a] \notin taken
      BY DEF ToSet
    <3>1. \A b \in DOMAIN free_q : free_q[b] \notin taken
      BY <1>0 DEF ToSet
    <3> QED
      BY <2>4, <2>6, <3>1
  <2>9. free_q \o m = <<>> => Len(m) # max_size - free_size
    BY <1>0, <2>3, <2>7
  <2>10. e.q = free_q \o m /\ e.ok = (Len(m) = max_size - free_size)
    BY <2>m
  <2>11. Len(free_q \o m) <= max_size
    BY <1>0, <2>7
  <2> QED
    BY <2>6, <2>8, <2>9, <2>10, <2>11
<1> QED
  BY <1>1, <1>2

(* A get takes the head of the queue, or is refused with nothing left.     *)
LEMMA GetInv == HlInv /\ hl_mempool_get => HlInv'
<1> SUFFICES ASSUME HlInv, hl_mempool_get PROVE HlInv'
  OBVIOUS
<1>1. PICK e \in do_expand :
        IF get_gives_up(e)
        THEN /\ free_q' = e.q /\ free_size' = Len(e.q) /\ refused' = TRUE
             /\ UNCHANGED taken
        ELSE /\ taken' = taken \cup {IF e.q = << >> THEN SENTINEL ELSE Head(e.q)}
             /\ free_q' = IF e.q = << >> THEN e.q ELSE Tail(e.q)
             /\ free_size' = Len(e.q) - 1 /\ refused' = FALSE
  BY DEF hl_mempool_get
<1>2. /\ e.q \in Seq(Node) /\ IsInjective(e.q) /\ Len(e.q) <= max_size
      /\ ToSet(e.q) \cap taken = {} /\ (e.q = <<>> => ~e.ok)
  BY Expanded
<1>3. max_size' = max_size /\ min_size' = min_size
  BY DEF hl_mempool_get
<1>4. CASE get_gives_up(e)
  <2>1. e.q = <<>>
    BY <1>2, <1>4 DEF get_gives_up
  <2> QED
    BY <1>1, <1>2, <1>3, <1>4, <2>1 DEF HlInv, HalfLifeSound
<1>5. CASE ~get_gives_up(e)
  <2>1. e.q # <<>>
    BY <1>2, <1>5 DEF get_gives_up
  <2>2. /\ Head(e.q) \in ToSet(e.q) /\ Head(e.q) \in Node
        /\ Tail(e.q) \in Seq(Node) /\ IsInjective(Tail(e.q)) /\ Len(Tail(e.q)) = Len(e.q) - 1
        /\ ToSet(Tail(e.q)) = ToSet(e.q) \ {Head(e.q)}
    BY <1>2, <2>1, SeqTail
  <2>3. /\ free_q' = Tail(e.q) /\ taken' = taken \cup {Head(e.q)}
        /\ free_size' = Len(e.q) - 1 /\ refused' = FALSE
    BY <1>1, <1>5, <2>1
  <2>4. free_size' = Len(free_q') /\ free_size' <= max_size
    BY <1>2, <2>2, <2>3 DEF HlInv
  <2>5. ToSet(free_q') \cap taken' = {} /\ taken' \subseteq Node
    BY <1>2, <2>2, <2>3 DEF HlInv, HalfLifeSound
  <2> QED
    BY <1>3, <2>2, <2>3, <2>4, <2>5 DEF HlInv, HalfLifeSound
<1> QED
  BY <1>4, <1>5

(* A node that comes back goes to the tail; where that is one too many,    *)
(* the head goes back to malloc.                                           *)
LEMMA FreeInv ==
  ASSUME HlInv, NEW n \in taken, hl_mempool_free(n)
  PROVE  HlInv'
<1>0. /\ max_size \in Nat \ {0} /\ free_q \in Seq(Node) /\ n \in Node
      /\ Len(free_q) \in Nat /\ free_size = Len(free_q) /\ Len(free_q) <= max_size
      /\ IsInjective(free_q) /\ ToSet(free_q) \cap taken = {}
  BY DEF HlInv, HalfLifeSound
<1>1. PICK q : q = Append(free_q, n)
  OBVIOUS
<1>2. q = free_q \o <<n>> /\ Len(q) = Len(free_q) + 1
  BY <1>0, <1>1
<1>3. <<n>> \in Seq(Node) /\ IsInjective(<<n>>)
  BY <1>0 DEF IsInjective
<1>4. \A a \in DOMAIN free_q, b \in DOMAIN <<n>> : free_q[a] # <<n>>[b]
  BY <1>0 DEF ToSet
<1>5. q \in Seq(Node) /\ IsInjective(q)
  BY <1>0, <1>2, <1>3, <1>4, SeqConcat
<1>6. ToSet(q) \cap (taken \ {n}) = {}
  <2> SUFFICES ASSUME NEW a \in DOMAIN q PROVE q[a] \notin taken \ {n}
    BY DEF ToSet
  <2>1. (a \in 1 .. Len(free_q) /\ q[a] = free_q[a]) \/ q[a] = n
    BY <1>0, <1>1
  <2> QED
    BY <1>0, <2>1 DEF ToSet
<1>7. /\ max_size' = max_size /\ min_size' = min_size
      /\ taken' = taken \ {n} /\ refused' = FALSE
  BY DEF hl_mempool_free
<1>t. /\ max_size' \in Nat \ {0} /\ min_size' \in Nat /\ min_size' <= max_size'
      /\ taken' \subseteq Node
  BY <1>7 DEF HlInv, HalfLifeSound
<1>r. refused' \in BOOLEAN /\ (refused' => free_q' = <<>>)
  BY <1>7
<1>8. CASE free_size + 1 <= max_size
  <2> DEFINE over == IF free_size + 1 > max_size THEN free_size + 1 - max_size ELSE 0
  <2>n. free_size \in Nat /\ max_size \in Nat
    BY <1>0
  <2>0. over = 0 /\ over + 1 = 1 /\ free_size + 1 - over = free_size + 1
    BY <1>8, <2>n
  <2>1. free_q' = SubSeq(q, over + 1, Len(q)) /\ free_size' = free_size + 1 - over
    BY <1>1 DEF hl_mempool_free
  <2> HIDE DEF over
  <2>2. free_q' = q
    BY <1>5, <2>0, <2>1
  <2>3. free_size' = Len(free_q') /\ free_size' <= max_size'
    BY <1>0, <1>2, <1>7, <1>8, <2>0, <2>1, <2>2
  <2>4. ToSet(free_q') \cap taken' = {}
    BY <1>6, <1>7, <2>2
  <2> QED
    BY <1>5, <1>t, <1>r, <2>2, <2>3, <2>4 DEF HlInv, HalfLifeSound
<1>9. CASE ~(free_size + 1 <= max_size)
  <2> DEFINE over == IF free_size + 1 > max_size THEN free_size + 1 - max_size ELSE 0
  <2>0. over = 1 /\ over + 1 = 2 /\ free_size + 1 - over = free_size
    BY <1>0, <1>9
  <2>1. free_q' = SubSeq(q, over + 1, Len(q)) /\ free_size' = free_size + 1 - over
    BY <1>1 DEF hl_mempool_free
  <2> HIDE DEF over
  <2>2. free_q' = SubSeq(q, 2, Len(q)) /\ free_size' = free_size
    BY <2>0, <2>1
  <2>3. q # <<>>
    BY <1>0, <1>2
  <2>4. free_q' = Tail(q)
    BY <1>5, <2>2, <2>3
  <2>5. /\ free_q' \in Seq(Node) /\ IsInjective(free_q') /\ Len(free_q') = Len(q) - 1
        /\ ToSet(free_q') = ToSet(q) \ {Head(q)}
    BY <1>5, <2>3, <2>4, SeqTail
  <2>6. free_size' = Len(free_q') /\ free_size' <= max_size'
    BY <1>0, <1>2, <1>7, <2>2, <2>5
  <2>7. ToSet(free_q') \cap taken' = {}
    BY <1>6, <1>7, <2>5
  <2> QED
    BY <1>t, <1>r, <2>5, <2>6, <2>7 DEF HlInv, HalfLifeSound
<1> QED
  BY <1>8, <1>9

(* For any sizes, from a reserve of 0 up, and whichever mallocs fail: the  *)
(* half-life pool counts its queue right, a node has one user or is once   *)
(* in the queue, no user gets the queue's own head, and a get is refused   *)
(* only with nothing left (core/dfs_half_life_mempool.cpp).                *)
THEOREM HalfLifeKept == HlSpec => []HalfLifeSound
<1>1. HlInv /\ [HlNext]_hl_vars => HlInv'
  <2> SUFFICES ASSUME HlInv, [HlNext]_hl_vars PROVE HlInv'
    OBVIOUS
  <2>1. CASE hl_mempool_get
    BY <2>1, GetInv
  <2>2. ASSUME NEW n \in taken, hl_mempool_free(n) PROVE HlInv'
    BY <2>2, FreeInv
  <2>3. CASE UNCHANGED hl_vars
    BY <2>3 DEF hl_vars, HlInv, HalfLifeSound
  <2> QED
    BY <2>1, <2>2, <2>3 DEF HlNext
<1>2. HlInv => HalfLifeSound
  BY DEF HlInv
<1> QED
  BY <1>1, <1>2, HlStart, PTL DEF HlSpec

-----------------------------------------------------------------------------
(* The memory pool.  Header(b) is what a block begins with.                *)
Header(b) == IF b = 1 THEN POOL_T ELSE POOL_DATA_T

Region == [b : Nat, lo : Nat, hi : Nat]

\* Every block is used from behind its header up to last.
BlocksSound ==
  /\ blocks \in Seq([last : Nat, end : {PoolSize}]) /\ Len(blocks) >= 1
  /\ \A b \in DOMAIN blocks : Header(b) <= blocks[b].last /\ blocks[b].last <= PoolSize

\* What is handed out lies in its block and is aligned, all of it apart.
InPlace(r) ==
  /\ r.b \in DOMAIN blocks
  /\ Header(r.b) <= r.lo /\ r.lo < r.hi /\ r.hi <= blocks[r.b].last
  /\ dfs_align_ptr(r.lo) = r.lo

Apart(r, q) == r.b = q.b => r.hi <= q.lo \/ q.hi <= r.lo

\* Every space that was handed out, one beside the other: array and region with the same
\* addresses would not be apart.
SpacesSound ==
  /\ regions \subseteq Region /\ nodes \subseteq Region
  /\ \A r \in Taken : InPlace(r)
  /\ \A r, q \in Taken : r # q => Apart(r, q)
  /\ regions \cap nodes = {} /\ ArraySpace \cap (regions \cup nodes) = {}

ArraySound ==
  /\ array \in [b : Nat, lo : Nat, nelts : Nat, nalloc : Nat]
  /\ array # no_array => array.b # 0 /\ array.nalloc # 0

PoolInv ==
  /\ stale \in BOOLEAN
  /\ ~stale => BlocksSound /\ current \in Nat \ {0} /\ ArraySound /\ SpacesSound

(* The entries of the list of blocks.                                      *)
LEMMA BlockEntries ==
  ASSUME BlocksSound
  PROVE  \A b \in DOMAIN blocks : blocks[b] \in [last : Nat, end : {PoolSize}]
<1> DEFINE S == [last : Nat, end : {PoolSize}]
<1>1. blocks \in Seq(S)
  BY DEF BlocksSound
<1> HIDE DEF S
<1>2. \A b \in DOMAIN blocks : blocks[b] \in S
  BY <1>1
<1> QED
  BY <1>2 DEF S

(* An aligned address is the next multiple of ALIGN.                       *)
LEMMA AlignedUp ==
  ASSUME NEW k \in Nat
  PROVE  /\ dfs_align_ptr(k) \in Nat /\ k <= dfs_align_ptr(k)
         /\ dfs_align_ptr(dfs_align_ptr(k)) = dfs_align_ptr(k)
<1>0. ALIGN \in Nat \ {0}
  BY PoolAssumption
<1> DEFINE q == (k + ALIGN - 1) \div ALIGN
           m == (k + ALIGN - 1) % ALIGN
<1>1. q \in Int /\ m \in 0 .. ALIGN - 1 /\ k + ALIGN - 1 = ALIGN * q + m
  BY <1>0
<1>2. dfs_align_ptr(k) = q * ALIGN
  BY DEF dfs_align_ptr
<1> HIDE DEF q, m
<1>3. ALIGN * q \in Int /\ q * ALIGN = ALIGN * q
  BY <1>0, <1>1
<1>4. k <= ALIGN * q
  BY <1>0, <1>1, <1>3
<1>5. (ALIGN * q + (ALIGN - 1)) \div ALIGN = q
  BY <1>0, <1>1, DivIs
<1>6. ALIGN * q + ALIGN - 1 = ALIGN * q + (ALIGN - 1)
  BY <1>0, <1>3
<1>7. dfs_align_ptr(ALIGN * q) = q * ALIGN
  BY <1>5, <1>6 DEF dfs_align_ptr
<1> QED
  BY <1>2, <1>3, <1>4, <1>7

\* A step of pool_alloc, which handed out the space x: it lies behind what its block was
\* used up to.
Grown(x) ==
  /\ BlocksSound' /\ x \in Region
  /\ \A b \in DOMAIN blocks : b \in DOMAIN blocks' /\ blocks[b].last <= blocks'[b].last
  /\ x.b \in DOMAIN blocks'
  /\ Header(x.b) <= x.lo /\ x.lo < x.hi /\ x.hi <= blocks'[x.b].last
  /\ dfs_align_ptr(x.lo) = x.lo
  /\ x.b \in DOMAIN blocks => blocks[x.b].last <= x.lo

(* pool_alloc hands out space behind the used part of the first block with *)
(* room, or of a new block.                                                *)
LEMMA AllocGrown ==
  ASSUME BlocksSound, current \in Nat \ {0}, NEW size \in Nat \ {0}, size <= max,
         blocks' = pool_alloc(size).blocks
  PROVE  Grown(pool_alloc(size).region) /\ pool_alloc(size).current \in Nat \ {0}
<1> DEFINE room == {b \in current .. Len(blocks) : Fits(b, size)}
<1>l. Len(blocks) \in Nat \ {0} /\ DOMAIN blocks = 1 .. Len(blocks)
  BY DEF BlocksSound
<1>0. /\ Len(blocks) \in Nat \ {0} /\ DOMAIN blocks = 1 .. Len(blocks)
      /\ \A b \in 1 .. Len(blocks) :
           /\ blocks[b] \in [last : Nat, end : {PoolSize}]
           /\ Header(b) <= blocks[b].last /\ blocks[b].last <= PoolSize
  <2>2. \A b \in 1 .. Len(blocks) : blocks[b] \in [last : Nat, end : {PoolSize}]
    BY <1>l, BlockEntries
  <2>3. \A b \in 1 .. Len(blocks) : Header(b) <= blocks[b].last /\ blocks[b].last <= PoolSize
    BY <1>l DEF BlocksSound
  <2> QED
    BY <1>l, <2>2, <2>3
<1>1. PoolSize \in Nat /\ POOL_T \in Nat /\ POOL_DATA_T \in Nat /\ max = PoolSize - POOL_T
  BY PoolAssumption DEF max
<1>2. CASE room # {}
  <2>1. room \in SUBSET Nat
    BY <1>0
  <2>2. PICK b \in room : b = Min(room)
    BY <1>2, <2>1, MinIn
  <2>3. b \in 1 .. Len(blocks) /\ Fits(b, size)
    BY <1>0, <2>2
  <2>4. PICK m \in Nat : m = dfs_align_ptr(blocks[b].last)
    BY <1>0, <2>3, AlignedUp
  <2>5. blocks[b].last <= m /\ dfs_align_ptr(m) = m
    BY <1>0, <2>3, <2>4, AlignedUp
  <2>6. blocks[b].end = PoolSize /\ m + size <= PoolSize
    BY <1>0, <1>1, <2>3, <2>4 DEF Fits
  <2>7. pool_alloc(size) = [region |-> [b |-> b, lo |-> m, hi |-> m + size],
                            blocks |-> [blocks EXCEPT ![b].last = m + size],
                            current |-> current]
    BY <1>2, <2>2, <2>4 DEF pool_alloc
  <2>8. /\ blocks' = [blocks EXCEPT ![b].last = m + size]
        /\ pool_alloc(size).region = [b |-> b, lo |-> m, hi |-> m + size]
        /\ pool_alloc(size).current = current
    BY <2>7
  <2>9. /\ DOMAIN blocks' = 1 .. Len(blocks)
        /\ blocks'[b] = [blocks[b] EXCEPT !.last = m + size]
        /\ \A c \in 1 .. Len(blocks) : c # b => blocks'[c] = blocks[c]
    BY <1>0, <2>3, <2>8
  <2>10. blocks'[b].last = m + size /\ blocks'[b] \in [last : Nat, end : {PoolSize}]
    BY <1>0, <2>3, <2>9
  <2>11. blocks' \in Seq([last : Nat, end : {PoolSize}]) /\ Len(blocks') = Len(blocks)
    <3> DEFINE S == [last : Nat, end : {PoolSize}]
    <3>1. \A c \in 1 .. Len(blocks) : blocks'[c] \in S
      BY <1>0, <2>9, <2>10
    <3>2. blocks' = [c \in 1 .. Len(blocks) |-> blocks'[c]]
      BY <1>0, <2>8, <2>9
    <3> HIDE DEF S
    <3>3. blocks' \in [1 .. Len(blocks) -> S]
      BY <3>1, <3>2
    <3>4. blocks' \in Seq(S) /\ Len(blocks') = Len(blocks)
      BY <1>l, <3>3
    <3> QED
      BY <3>4 DEF S
  <2>12. Header(b) \in Nat /\ Header(b) <= m /\ Header(b) <= m + size
    BY <1>0, <1>1, <2>3, <2>5 DEF Header
  <2>13. BlocksSound'
    BY <1>0, <2>3, <2>6, <2>9, <2>10, <2>11, <2>12 DEF BlocksSound
  <2>14. \A c \in DOMAIN blocks : c \in DOMAIN blocks' /\ blocks[c].last <= blocks'[c].last
    BY <1>0, <2>3, <2>5, <2>9, <2>10
  <2> QED
    BY <1>0, <2>3, <2>5, <2>8, <2>9, <2>10, <2>12, <2>13, <2>14 DEF Grown, Region
<1>3. CASE room = {}
  <2>1. PICK m \in Nat : m = dfs_align_ptr(POOL_DATA_T)
    BY <1>1, AlignedUp
  <2>2. POOL_DATA_T <= m /\ m <= POOL_T /\ dfs_align_ptr(m) = m
    BY <1>1, <2>1, AlignedUp, PoolAssumption
  <2>3. m + size <= PoolSize
    BY <1>1, <2>2
  <2>4. PICK nb : nb = [last |-> m + size, end |-> PoolSize]
    OBVIOUS
  <2>5. nb \in [last : Nat, end : {PoolSize}] /\ nb.last = m + size
    BY <2>4
  <2>6. pool_alloc(size) = [region |-> [b |-> Len(blocks) + 1, lo |-> m, hi |-> m + size],
                            blocks |-> Append(blocks, nb), current |-> NextCurrent]
    BY <1>3, <2>1, <2>4 DEF pool_alloc
  <2>7. /\ blocks' = Append(blocks, nb)
        /\ pool_alloc(size).region = [b |-> Len(blocks) + 1, lo |-> m, hi |-> m + size]
        /\ pool_alloc(size).current = NextCurrent
    BY <2>6
  <2>8. /\ blocks' \in Seq([last : Nat, end : {PoolSize}]) /\ Len(blocks') = Len(blocks) + 1
        /\ blocks'[Len(blocks) + 1] = nb
        /\ \A c \in 1 .. Len(blocks) : blocks'[c] = blocks[c]
    BY <1>0, <2>5, <2>7 DEF BlocksSound
  <2>9. DOMAIN blocks' = 1 .. Len(blocks) + 1
    BY <1>0, <2>8
  <2>10. Header(Len(blocks) + 1) = POOL_DATA_T
    BY <1>0 DEF Header
  <2>11. BlocksSound'
    <3>1. ASSUME NEW c \in 1 .. Len(blocks) + 1
          PROVE  Header(c) <= blocks'[c].last /\ blocks'[c].last <= PoolSize
      <4>1. CASE c = Len(blocks) + 1
        BY <1>1, <2>2, <2>3, <2>5, <2>8, <2>10, <4>1
      <4>2. CASE c \in 1 .. Len(blocks)
        BY <1>0, <2>8, <4>2
      <4> QED
        BY <1>0, <4>1, <4>2
    <3> QED
      BY <1>0, <2>8, <2>9, <3>1 DEF BlocksSound
  <2>12. \A c \in DOMAIN blocks : c \in DOMAIN blocks' /\ blocks[c].last <= blocks'[c].last
    BY <1>0, <2>8, <2>9
  <2>13. Len(blocks) + 1 \notin DOMAIN blocks
    BY <1>0
  <2>14. Grown(pool_alloc(size).region)
    BY <1>0, <2>2, <2>5, <2>7, <2>8, <2>9, <2>10, <2>11, <2>12, <2>13 DEF Grown, Region
  <2>15. NextCurrent \in Nat \ {0}
    <3> DEFINE full == {b \in current .. Len(blocks) - 1 :
                          blocks[b].end - blocks[b].last < ALIGN}
    <3>1. full \in SUBSET Nat /\ \A x \in full : x <= Len(blocks)
      BY <1>0
    <3>2. full # {} => Max(full) \in full
      BY <1>0, <3>1, MaxIn
    <3>3. full # {} => Max(full) \in Nat
      BY <3>1, <3>2
    <3>4. NextCurrent = IF full = {} THEN Len(blocks) + 1 ELSE Max(full) + 1
      BY DEF NextCurrent
    <3> HIDE DEF full
    <3> QED
      BY <1>0, <3>3, <3>4
  <2> QED
    BY <2>7, <2>14, <2>15
<1> QED
  BY <1>2, <1>3

(* The space of the array is one of the spaces.                            *)
LEMMA TakenTypes ==
  ASSUME ArraySound, SpacesSound
  PROVE  Taken \subseteq Region
<1>1. ArraySpace \subseteq Region
  BY DEF ArraySpace, ArrayEnd, elt_size, ArraySound, Region
<1> QED
  BY <1>1 DEF Taken, SpacesSound

(* The space pool_alloc hands out is apart from what was handed out.       *)
LEMMA NewSpace ==
  ASSUME BlocksSound, ArraySound, SpacesSound, NEW x, Grown(x)
  PROVE  /\ InPlace(x)'
         /\ \A r \in Taken : InPlace(r)' /\ r # x /\ Apart(r, x) /\ Apart(x, r)
<1>1. InPlace(x)'
  BY DEF Grown, InPlace
<1>2. ASSUME NEW r \in Taken
      PROVE  InPlace(r)' /\ r # x /\ Apart(r, x) /\ Apart(x, r)
  <2>1. r \in Region /\ x \in Region /\ InPlace(r)
    BY TakenTypes DEF SpacesSound, Grown
  <2>2. r.b \in Nat /\ r.lo \in Nat /\ r.hi \in Nat /\ x.lo \in Nat /\ x.hi \in Nat
    BY <2>1 DEF Region
  <2>3. /\ r.b \in DOMAIN blocks /\ r.b \in DOMAIN blocks'
        /\ r.hi <= blocks[r.b].last /\ blocks[r.b].last <= blocks'[r.b].last
    BY <2>1 DEF InPlace, Grown
  <2>4. blocks[r.b].last \in Nat /\ blocks'[r.b].last \in Nat
    <3> DEFINE S == [last : Nat, end : {PoolSize}]
    <3>1. blocks \in Seq(S) /\ blocks' \in Seq(S)
      BY DEF BlocksSound, Grown
    <3> HIDE DEF S
    <3>2. blocks[r.b] \in S /\ blocks'[r.b] \in S
      BY <2>3, <3>1
    <3> QED
      BY <3>2 DEF S
  <2>5. InPlace(r)'
    BY <2>1, <2>2, <2>3, <2>4 DEF InPlace
  <2>6. x.b = r.b => r.hi <= x.lo
    BY <2>2, <2>3, <2>4 DEF Grown
  <2>7. r.lo < r.hi /\ x.lo < x.hi
    BY <2>1 DEF InPlace, Grown
  <2>8. r # x
    BY <2>2, <2>6, <2>7
  <2> QED
    BY <2>5, <2>6, <2>8 DEF Apart
<1> QED
  BY <1>1, <1>2

(* The spaces with the new one, and without one that is given up.          *)
LEMMA SpacesGrown ==
  ASSUME BlocksSound, ArraySound, SpacesSound, NEW x, Grown(x), Taken' \subseteq Taken \cup {x},
         regions' \subseteq Region, nodes' \subseteq Region, regions' \cap nodes' = {},
         ArraySpace' \cap (regions' \cup nodes') = {}
  PROVE  SpacesSound'
<1>1. \A r \in Taken' : InPlace(r)'
  BY NewSpace
<1>2. ASSUME NEW r \in Taken', NEW q \in Taken', r # q
      PROVE  Apart(r, q)
  <2>1. CASE r \in Taken /\ q \in Taken
    BY <1>2, <2>1 DEF SpacesSound
  <2>2. CASE r = x /\ q \in Taken
    BY <2>2, NewSpace
  <2>3. CASE r \in Taken /\ q = x
    BY <2>3, NewSpace
  <2> QED
    BY <1>2, <2>1, <2>2, <2>3
<1> QED
  BY <1>1, <1>2 DEF SpacesSound, Apart

(* An allocation for a user or for the list of large memory.               *)
LEMMA AllocInv ==
  ASSUME PoolInv, ~stale, (\E size \in AllocSizes : alloc_small(size)) \/ alloc_large
  PROVE  PoolInv'
<1>0. BlocksSound /\ current \in Nat \ {0} /\ ArraySound /\ SpacesSound
  BY DEF PoolInv
<1>1. PICK size \in Nat \ {0} :
        /\ size <= max
        /\ blocks' = pool_alloc(size).blocks /\ current' = pool_alloc(size).current
        /\ UNCHANGED <<array, stale>>
        /\ \/ /\ regions' = regions \cup {pool_alloc(size).region} /\ nodes' = nodes
           \/ /\ nodes' = nodes \cup {pool_alloc(size).region} /\ regions' = regions
  <2>1. ASSUME NEW size \in AllocSizes, alloc_small(size)
        PROVE  /\ size \in Nat \ {0} /\ size <= max
               /\ blocks' = pool_alloc(size).blocks /\ current' = pool_alloc(size).current
               /\ regions' = regions \cup {pool_alloc(size).region}
               /\ UNCHANGED <<nodes, array, stale>>
    BY <2>1, PoolAssumption DEF alloc_small
  <2>2. CASE alloc_large
    <3>1. LARGE_T \in Nat \ {0} /\ LARGE_T <= max
      BY PoolAssumption
    <3>2. /\ blocks' = pool_alloc(LARGE_T).blocks /\ current' = pool_alloc(LARGE_T).current
          /\ nodes' = nodes \cup {pool_alloc(LARGE_T).region}
          /\ UNCHANGED <<regions, array, stale>>
      BY <2>2 DEF alloc_large
    <3> QED
      BY <3>1, <3>2
  <2> QED
    BY <2>1, <2>2
<1>2. PICK x : x = pool_alloc(size).region
  OBVIOUS
<1>3. Grown(x) /\ current' \in Nat \ {0}
  BY <1>0, <1>1, <1>2, AllocGrown
<1>4. x \notin Taken /\ x \in Region
  BY <1>0, <1>3, NewSpace DEF Grown
<1>5. ArraySpace' = ArraySpace /\ ArraySound'
  BY <1>0, <1>1 DEF ArraySpace, ArrayEnd, elt_size, ArraySound
<1>6. Taken' \subseteq Taken \cup {x}
  BY <1>1, <1>2, <1>5 DEF Taken
<1>7. regions' \subseteq Region /\ nodes' \subseteq Region
  BY <1>0, <1>1, <1>2, <1>4 DEF SpacesSound
<1>8. regions' \cap nodes' = {} /\ ArraySpace' \cap (regions' \cup nodes') = {}
  BY <1>0, <1>1, <1>2, <1>4, <1>5 DEF SpacesSound, Taken
<1>9. SpacesSound'
  BY <1>0, <1>3, <1>6, <1>7, <1>8, SpacesGrown
<1> QED
  BY <1>1, <1>3, <1>5, <1>9 DEF PoolInv, Grown

(* The array gets a space, its first or twice the one before.              *)
LEMMA ArrayAllocInv ==
  ASSUME PoolInv, ~stale, (\E k \in AllocSizes : array_init(k)) \/ array_push_move
  PROVE  PoolInv'
<1>0. BlocksSound /\ current \in Nat \ {0} /\ ArraySound /\ SpacesSound
  BY DEF PoolInv
<1>1. PICK size \in Nat \ {0} :
        /\ size <= max
        /\ blocks' = pool_alloc(size).blocks /\ current' = pool_alloc(size).current
        /\ UNCHANGED <<regions, nodes, stale>>
        /\ \E e \in Nat : array' = [b |-> pool_alloc(size).region.b,
                                    lo |-> pool_alloc(size).region.lo,
                                    nelts |-> e, nalloc |-> size]
  <2>1. ASSUME NEW k \in AllocSizes, array_init(k)
        PROVE  /\ k \in Nat \ {0} /\ k <= max
               /\ blocks' = pool_alloc(k).blocks /\ current' = pool_alloc(k).current
               /\ UNCHANGED <<regions, nodes, stale>>
               /\ array' = [b |-> pool_alloc(k).region.b, lo |-> pool_alloc(k).region.lo,
                            nelts |-> 0, nalloc |-> k]
    <3>1. k \in Nat \ {0} /\ k * elt_size = k
      BY PoolAssumption DEF elt_size
    <3> QED
      BY <2>1, <3>1 DEF array_init
  <2>2. CASE array_push_move
    <3>1. array.nelts \in Nat /\ array.nalloc \in Nat \ {0}
      BY <1>0, <2>2 DEF array_push_move, ArraySound
    <3>2. PICK k \in Nat \ {0} : k = 2 * array.nalloc /\ 2 * elt_size * array.nalloc = k
      BY <3>1 DEF elt_size
    <3>3. /\ k <= max
          /\ blocks' = pool_alloc(k).blocks /\ current' = pool_alloc(k).current
          /\ UNCHANGED <<regions, nodes, stale>>
          /\ array' = [b |-> pool_alloc(k).region.b, lo |-> pool_alloc(k).region.lo,
                       nelts |-> array.nelts + 1, nalloc |-> k]
      BY <2>2, <3>2 DEF array_push_move
    <3>4. array.nelts + 1 \in Nat
      BY <3>1
    <3> QED
      BY <3>3, <3>4
  <2> QED
    BY <2>1, <2>2
<1>2. PICK x : x = pool_alloc(size).region
  OBVIOUS
<1>3. Grown(x) /\ current' \in Nat \ {0}
  BY <1>0, <1>1, <1>2, AllocGrown
<1>4. x \notin Taken /\ x \in Region /\ x.b # 0
  <2>1. x.b \in DOMAIN blocks' /\ blocks' \in Seq([last : Nat, end : {PoolSize}])
    BY <1>3 DEF Grown, BlocksSound
  <2>2. x.b # 0
    BY <2>1
  <2> QED
    BY <1>0, <1>3, <2>2, NewSpace DEF Grown
<1>5. x.hi = x.lo + size
  BY <1>2 DEF pool_alloc
<1>6. /\ array' \in [b : Nat, lo : Nat, nelts : Nat, nalloc : Nat]
      /\ array'.b = x.b /\ array'.lo = x.lo /\ array'.nalloc = size
  BY <1>1, <1>2, <1>4 DEF Region
<1>7. array' # no_array
  BY <1>4, <1>6 DEF no_array
<1>8. ArraySound'
  BY <1>1, <1>4, <1>6, <1>7 DEF ArraySound
<1>9. ArraySpace' = {x}
  <2>1. ArrayEnd' = x.hi
    BY <1>1, <1>5, <1>6 DEF ArrayEnd, elt_size
  <2>2. x = [b |-> x.b, lo |-> x.lo, hi |-> x.hi]
    BY <1>4 DEF Region
  <2> QED
    BY <1>6, <1>7, <2>1, <2>2 DEF ArraySpace
<1>10. Taken' \subseteq Taken \cup {x}
  BY <1>1, <1>9 DEF Taken
<1>11. /\ regions' \subseteq Region /\ nodes' \subseteq Region /\ regions' \cap nodes' = {}
       /\ ArraySpace' \cap (regions' \cup nodes') = {}
  BY <1>0, <1>1, <1>4, <1>9 DEF SpacesSound, Taken
<1>12. SpacesSound'
  BY <1>0, <1>3, <1>10, <1>11, SpacesGrown
<1> QED
  BY <1>1, <1>3, <1>8, <1>12 DEF PoolInv, Grown

(* While the array ends where the first block is used up to, everything    *)
(* else in the block lies before it.                                       *)
LEMMA BeforeArray ==
  ASSUME BlocksSound, ArraySound, SpacesSound, array # no_array, ArrayIsLast
  PROVE  /\ \A r \in regions \cup nodes : r.b = 1 => r.hi <= array.lo
         /\ array.lo \in Nat /\ array.nalloc \in Nat \ {0} /\ ArrayEnd = array.lo + array.nalloc
         /\ array.b = 1 /\ blocks[1].last = ArrayEnd
         /\ Header(1) <= array.lo /\ dfs_align_ptr(array.lo) = array.lo
<1>1. /\ array.b = 1 /\ array.lo \in Nat /\ array.nalloc \in Nat \ {0}
      /\ ArrayEnd = array.lo + array.nalloc /\ blocks[1].last = ArrayEnd
  BY DEF ArraySound, ArrayIsLast, ArrayEnd, elt_size
<1>2. PICK a : a = [b |-> array.b, lo |-> array.lo, hi |-> ArrayEnd]
  OBVIOUS
<1>3. a \in Taken /\ a \in ArraySpace /\ a.b = 1 /\ a.lo = array.lo /\ a.hi = ArrayEnd
  BY <1>1, <1>2 DEF Taken, ArraySpace
<1>4. ASSUME NEW r \in regions \cup nodes, r.b = 1
      PROVE  r.hi <= array.lo
  <2>1. r \in Taken /\ r \in Region /\ r # a /\ InPlace(r)
    BY <1>3 DEF SpacesSound, Taken
  <2>2. r.hi <= a.lo \/ a.hi <= r.lo
    BY <1>3, <1>4, <2>1 DEF SpacesSound, Apart
  <2>3. r.lo \in Nat /\ r.hi \in Nat /\ r.lo < r.hi /\ r.hi <= ArrayEnd
    BY <1>1, <1>4, <2>1 DEF Region, InPlace
  <2> QED
    BY <1>1, <1>3, <2>2, <2>3
<1>5. InPlace(a)
  BY <1>3 DEF SpacesSound
<1> QED
  BY <1>1, <1>3, <1>4, <1>5 DEF InPlace

(* The array grows in place or gives back its space at the end of the      *)
(* first block.                                                            *)
LEMMA FirstBlock ==
  ASSUME BlocksSound, NEW n \in Nat, Header(1) <= n, n <= PoolSize,
         blocks' = [blocks EXCEPT ![1].last = n]
  PROVE  /\ BlocksSound' /\ DOMAIN blocks' = DOMAIN blocks /\ 1 \in DOMAIN blocks
         /\ blocks'[1].last = n
         /\ \A b \in DOMAIN blocks : b # 1 => blocks'[b] = blocks[b]
<1> DEFINE S == [last : Nat, end : {PoolSize}]
<1>1. blocks \in Seq(S) /\ Len(blocks) >= 1
  BY DEF BlocksSound
<1>2. Len(blocks) \in Nat /\ DOMAIN blocks = 1 .. Len(blocks) /\ 1 \in 1 .. Len(blocks)
  BY <1>1
<1>3. blocks[1] \in S
  BY <1>2, BlockEntries
<1>4. PICK d : d = [blocks[1] EXCEPT !.last = n]
  OBVIOUS
<1>5. d \in S /\ d.last = n
  BY <1>3, <1>4
<1>6. blocks' = [blocks EXCEPT ![1] = d]
  BY <1>4
<1> HIDE DEF S
<1>7. /\ blocks' \in Seq(S) /\ Len(blocks') = Len(blocks) /\ DOMAIN blocks' = DOMAIN blocks
      /\ blocks'[1] = d /\ \A b \in DOMAIN blocks : b # 1 => blocks'[b] = blocks[b]
  BY <1>1, <1>2, <1>5, <1>6
<1>8. \A b \in DOMAIN blocks' : Header(b) <= blocks'[b].last /\ blocks'[b].last <= PoolSize
  BY <1>5, <1>7 DEF BlocksSound
<1>9. BlocksSound'
  BY <1>1, <1>7, <1>8 DEF BlocksSound, S
<1> QED
  BY <1>2, <1>5, <1>7, <1>9

(* array_push, where the array grows in place.                             *)
LEMMA ExtendInv ==
  ASSUME PoolInv, ~stale, array_push_extend
  PROVE  PoolInv'
<1>0. BlocksSound /\ current \in Nat \ {0} /\ ArraySound /\ SpacesSound
  BY DEF PoolInv
<1>1. /\ array # no_array /\ ArrayIsLast /\ blocks[1].last + 1 <= blocks[1].end
      /\ blocks' = [blocks EXCEPT ![1].last = blocks[1].last + 1]
      /\ array' = [array EXCEPT !.nelts = @ + 1, !.nalloc = @ + 1]
      /\ UNCHANGED <<current, regions, nodes, stale>>
  BY DEF array_push_extend, elt_size
<1>2. /\ \A r \in regions \cup nodes : r.b = 1 => r.hi <= array.lo
      /\ array.lo \in Nat /\ array.nalloc \in Nat \ {0} /\ ArrayEnd = array.lo + array.nalloc
      /\ array.b = 1 /\ blocks[1].last = ArrayEnd
      /\ Header(1) <= array.lo /\ dfs_align_ptr(array.lo) = array.lo
  BY <1>0, <1>1, BeforeArray
<1>3. PICK n \in Nat : n = ArrayEnd + 1
  BY <1>2
<1>4. Header(1) \in Nat /\ PoolSize \in Nat
  BY PoolAssumption DEF Header
<1>5. blocks[1].end = PoolSize
  <2>1. 1 \in DOMAIN blocks
    BY <1>0 DEF BlocksSound
  <2>2. blocks[1] \in [last : Nat, end : {PoolSize}]
    BY <1>0, <2>1, BlockEntries
  <2> QED
    BY <2>2
<1>6. n <= PoolSize /\ Header(1) <= n /\ blocks' = [blocks EXCEPT ![1].last = n]
  BY <1>1, <1>2, <1>3, <1>4, <1>5
<1>7. /\ BlocksSound' /\ DOMAIN blocks' = DOMAIN blocks /\ 1 \in DOMAIN blocks
      /\ blocks'[1].last = n
      /\ \A b \in DOMAIN blocks : b # 1 => blocks'[b] = blocks[b]
  BY <1>0, <1>6, FirstBlock
<1>8. /\ array' \in [b : Nat, lo : Nat, nelts : Nat, nalloc : Nat]
      /\ array'.b = 1 /\ array'.lo = array.lo /\ array'.nalloc = array.nalloc + 1
  <2>1. array \in [b : Nat, lo : Nat, nelts : Nat, nalloc : Nat]
    BY <1>0 DEF ArraySound
  <2>2. array.nelts + 1 \in Nat /\ array.nalloc + 1 \in Nat
    BY <2>1
  <2>3. array' = [b |-> array.b, lo |-> array.lo, nelts |-> array.nelts + 1,
                  nalloc |-> array.nalloc + 1]
    BY <1>1, <2>1
  <2> QED
    BY <1>2, <2>1, <2>2, <2>3
<1>9. array' # no_array /\ array'.nalloc # 0
  BY <1>2, <1>8 DEF no_array
<1>10. PICK a : a = [b |-> 1, lo |-> array.lo, hi |-> n]
  OBVIOUS
<1>11. ArraySpace' = {a} /\ a.b = 1 /\ a.lo = array.lo /\ a.hi = n
  <2>1. ArrayEnd' = n
    BY <1>2, <1>3, <1>8 DEF ArrayEnd, elt_size
  <2> QED
    BY <1>8, <1>9, <1>10, <2>1 DEF ArraySpace
<1>12. \A r \in regions \cup nodes :
         r \in Region /\ r \in Taken /\ InPlace(r) /\ r.lo < r.hi /\ r.hi \in Nat /\ r.lo \in Nat
  BY <1>0 DEF SpacesSound, Taken, Region, InPlace
<1>13. \A r \in regions \cup nodes : r # a /\ Apart(r, a) /\ Apart(a, r)
  BY <1>2, <1>3, <1>11, <1>12 DEF Apart
<1>14. ASSUME NEW r \in regions \cup nodes PROVE InPlace(r)'
  <2>1. r.b \in DOMAIN blocks' /\ (r.b # 1 => r.hi <= blocks'[r.b].last)
    BY <1>7, <1>12 DEF InPlace
  <2>2. r.b = 1 => r.hi <= blocks'[r.b].last
    BY <1>2, <1>3, <1>7, <1>12
  <2> QED
    BY <1>12, <2>1, <2>2 DEF InPlace
<1>15. InPlace(a)'
  BY <1>2, <1>3, <1>7, <1>11 DEF InPlace
<1>16. Taken' = regions \cup nodes \cup {a}
  BY <1>1, <1>11 DEF Taken
<1>17. SpacesSound'
  <2>1. ASSUME NEW r \in Taken', NEW q \in Taken', r # q PROVE Apart(r, q)
    <3>1. CASE r = a \/ q = a
      BY <1>13, <1>16, <2>1, <3>1
    <3>2. CASE r \in regions \cup nodes /\ q \in regions \cup nodes
      BY <1>0, <1>12, <2>1, <3>2 DEF SpacesSound
    <3> QED
      BY <1>16, <3>1, <3>2
  <2>2. regions' = regions /\ nodes' = nodes
    BY <1>1
  <2>3. \A r \in Taken' : InPlace(r)'
    BY <1>14, <1>15, <1>16
  <2>4. ArraySpace' \cap (regions' \cup nodes') = {}
    BY <1>11, <1>13, <2>2
  <2> QED
    BY <1>0, <2>1, <2>2, <2>3, <2>4 DEF SpacesSound, Apart
<1> QED
  BY <1>0, <1>1, <1>7, <1>8, <1>9, <1>17 DEF PoolInv, ArraySound

(* array_destroy gives back the last space of the first block.             *)
LEMMA DestroyInv ==
  ASSUME PoolInv, ~stale, array_destroy
  PROVE  PoolInv'
<1>0. BlocksSound /\ current \in Nat \ {0} /\ ArraySound /\ SpacesSound
  BY DEF PoolInv
<1>1. /\ array # no_array /\ array' = no_array /\ UNCHANGED <<current, regions, nodes, stale>>
      /\ blocks' = IF ArrayIsLast THEN [blocks EXCEPT ![1].last = array.lo] ELSE blocks
  BY DEF array_destroy
<1>2. ArraySpace' = {} /\ Taken' = regions \cup nodes /\ Taken' \subseteq Taken
  BY <1>1 DEF ArraySpace, Taken
<1>3. ArraySound'
  BY <1>1 DEF ArraySound, no_array
<1>4. BlocksSound' /\ \A r \in Taken' : InPlace(r)'
  <2>1. CASE ~ArrayIsLast
    <3>1. blocks' = blocks
      BY <1>1, <2>1
    <3> QED
      BY <1>0, <1>2, <3>1 DEF BlocksSound, SpacesSound, InPlace
  <2>2. CASE ArrayIsLast
    <3>1. /\ \A r \in regions \cup nodes : r.b = 1 => r.hi <= array.lo
          /\ array.lo \in Nat /\ array.nalloc \in Nat \ {0}
          /\ ArrayEnd = array.lo + array.nalloc /\ blocks[1].last = ArrayEnd
          /\ Header(1) <= array.lo
      BY <1>0, <1>1, <2>2, BeforeArray
    <3>2. 1 \in DOMAIN blocks /\ blocks[1].last <= PoolSize /\ PoolSize \in Nat
      BY <1>0, PoolAssumption DEF BlocksSound
    <3>3. array.lo <= PoolSize /\ blocks' = [blocks EXCEPT ![1].last = array.lo]
      BY <1>1, <2>2, <3>1, <3>2
    <3>4. /\ BlocksSound' /\ DOMAIN blocks' = DOMAIN blocks /\ blocks'[1].last = array.lo
          /\ \A b \in DOMAIN blocks : b # 1 => blocks'[b] = blocks[b]
      BY <1>0, <3>1, <3>3, FirstBlock
    <3>5. ASSUME NEW r \in Taken' PROVE InPlace(r)'
      <4>1. InPlace(r) /\ r \in regions \cup nodes
        BY <1>0, <1>2 DEF SpacesSound
      <4> QED
        BY <3>1, <3>4, <4>1 DEF InPlace
    <3> QED
      BY <3>4, <3>5
  <2> QED
    BY <2>1, <2>2
<1>5. SpacesSound'
  BY <1>0, <1>1, <1>2, <1>4 DEF SpacesSound, Apart
<1> QED
  BY <1>0, <1>1, <1>3, <1>4, <1>5 DEF PoolInv

(* pool_reset, after which nothing is handed out but what it left listed.  *)
LEMMA ResetInv ==
  ASSUME PoolInv, ~stale, pool_reset
  PROVE  PoolInv'
<1>0. BlocksSound /\ current \in Nat \ {0} /\ ArraySound /\ SpacesSound
  BY DEF PoolInv
<1>1. /\ blocks' = [b \in DOMAIN blocks |-> [blocks[b] EXCEPT !.last = POOL_T]]
      /\ current' = 1 /\ regions' = {} /\ array' = no_array /\ nodes' = nodes
      /\ stale' = (nodes # {})
  BY DEF pool_reset
<1>2. stale' \in BOOLEAN /\ (~stale' => nodes' = {})
  BY <1>1
<1>3. BlocksSound'
  <2> DEFINE S == [last : Nat, end : {PoolSize}]
  <2>1. blocks \in Seq(S) /\ Len(blocks) >= 1
    BY <1>0 DEF BlocksSound
  <2>2. Len(blocks) \in Nat /\ DOMAIN blocks = 1 .. Len(blocks)
    BY <2>1
  <2>3. /\ POOL_T \in Nat /\ POOL_DATA_T \in Nat /\ PoolSize \in Nat
        /\ POOL_DATA_T <= POOL_T /\ POOL_T <= PoolSize
    BY PoolAssumption DEF max
  <2>4. \A b \in DOMAIN blocks : blocks[b] \in S
    BY <1>0, BlockEntries
  <2>5. \A b \in DOMAIN blocks : blocks'[b] \in S /\ blocks'[b].last = POOL_T
    BY <1>1, <2>3, <2>4
  <2>6. DOMAIN blocks' = 1 .. Len(blocks) /\ blocks' = [b \in 1 .. Len(blocks) |-> blocks'[b]]
    BY <1>1, <2>2
  <2> HIDE DEF S
  <2>7. blocks' \in [1 .. Len(blocks) -> S]
    BY <2>2, <2>5, <2>6
  <2>8. blocks' \in Seq(S) /\ Len(blocks') = Len(blocks)
    BY <2>2, <2>7
  <2>9. \A b \in DOMAIN blocks' : Header(b) <= POOL_T
    BY <2>3 DEF Header
  <2> QED
    BY <2>1, <2>2, <2>3, <2>5, <2>6, <2>8, <2>9 DEF BlocksSound, S
<1>4. ArraySound' /\ ArraySpace' = {}
  BY <1>1 DEF ArraySound, ArraySpace, no_array
<1>5. ~stale' => SpacesSound'
  BY <1>1, <1>2, <1>4 DEF SpacesSound, Taken
<1> QED
  BY <1>1, <1>2, <1>3, <1>4, <1>5 DEF PoolInv

(* For any sizes and any alignment, however arrays grow in place, move and *)
(* give back their space: what pool_alloc has handed out lies inside its   *)
(* block, behind the header and aligned, and no two spaces meet, up to a   *)
(* reset that leaves large memory listed (core/dfs_memory_pool.cpp,        *)
(* core/dfs_array.cpp).                                                    *)
THEOREM PoolKept == PoolSpec => []PoolSound
<1>1. PoolInit => PoolInv
  <2> SUFFICES ASSUME PoolInit PROVE PoolInv
    OBVIOUS
  <2>1. POOL_T \in Nat /\ PoolSize \in Nat /\ POOL_T <= PoolSize
    BY PoolAssumption DEF max
  <2>2. PICK d : d = [last |-> POOL_T, end |-> PoolSize]
    OBVIOUS
  <2>3. d \in [last : Nat, end : {PoolSize}] /\ d.last = POOL_T /\ blocks = <<d>>
    BY <2>1, <2>2 DEF PoolInit
  <2>4. BlocksSound
    BY <2>1, <2>3 DEF BlocksSound, Header
  <2>5. ArraySound /\ ArraySpace = {}
    BY DEF PoolInit, ArraySound, ArraySpace, no_array
  <2>6. SpacesSound
    BY <2>5 DEF PoolInit, SpacesSound, Taken
  <2>7. stale = FALSE /\ current = 1
    BY DEF PoolInit
  <2>8. stale \in BOOLEAN
    BY <2>7
  <2>9. current \in Nat \ {0}
    BY <2>7
  <2> QED
    BY <2>4, <2>5, <2>6, <2>8, <2>9 DEF PoolInv
<1>2. PoolInv /\ [PoolNext]_mpool_vars => PoolInv'
  <2> SUFFICES ASSUME PoolInv, [PoolNext]_mpool_vars PROVE PoolInv'
    OBVIOUS
  <2>1. CASE UNCHANGED mpool_vars
    BY <2>1 DEF mpool_vars, PoolInv, BlocksSound, ArraySound, SpacesSound, InPlace, Taken,
                ArraySpace, ArrayEnd
  <2>2. CASE PoolNext
    <3>1. ~stale
      BY <2>2 DEF PoolNext
    <3>2. CASE (\E size \in AllocSizes : alloc_small(size)) \/ alloc_large
      BY <3>1, <3>2, AllocInv
    <3>3. CASE (\E k \in AllocSizes : array_init(k)) \/ array_push_move
      BY <3>1, <3>3, ArrayAllocInv
    <3>4. CASE array_push_room
      <4>1. /\ UNCHANGED <<blocks, current, regions, nodes, stale>> /\ array # no_array
            /\ array' = [array EXCEPT !.nelts = @ + 1]
        BY <3>4 DEF array_push_room
      <4>2. BlocksSound /\ current \in Nat \ {0} /\ ArraySound /\ SpacesSound
        BY <3>1 DEF PoolInv
      <4>3. /\ array' \in [b : Nat, lo : Nat, nelts : Nat, nalloc : Nat]
            /\ array'.b = array.b /\ array'.lo = array.lo /\ array'.nalloc = array.nalloc
            /\ array.b # 0 /\ array.nalloc # 0
        BY <4>1, <4>2 DEF ArraySound
      <4>4. array' # no_array
        BY <4>3 DEF no_array
      <4>5. ArraySound' /\ ArraySpace' = ArraySpace
        BY <4>1, <4>3, <4>4 DEF ArraySound, ArraySpace, ArrayEnd
      <4>6. SpacesSound' /\ BlocksSound'
        BY <4>1, <4>2, <4>5 DEF SpacesSound, Taken, InPlace, Apart, BlocksSound
      <4> QED
        BY <3>1, <4>1, <4>2, <4>5, <4>6 DEF PoolInv
    <3>5. CASE array_push_extend
      BY <3>1, <3>5, ExtendInv
    <3>6. CASE array_destroy
      BY <3>1, <3>6, DestroyInv
    <3>7. CASE pool_reset
      BY <3>1, <3>7, ResetInv
    <3> QED
      BY <2>2, <3>2, <3>3, <3>4, <3>5, <3>6, <3>7 DEF PoolNext
  <2> QED
    BY <2>1, <2>2
<1>3. PoolInv => PoolSound
  <2> SUFFICES ASSUME PoolInv, ~stale
               PROVE  /\ \A r \in Taken :
                           /\ (IF r.b = 1 THEN POOL_T ELSE POOL_DATA_T) <= r.lo
                           /\ r.hi <= blocks[r.b].last /\ dfs_align_ptr(r.lo) = r.lo
                      /\ \A b \in DOMAIN blocks : blocks[b].last <= blocks[b].end
                      /\ \A r, q \in Taken :
                           r # q /\ r.b = q.b => r.hi <= q.lo \/ q.hi <= r.lo
                      /\ regions \cap nodes = {}
                      /\ ArraySpace \cap (regions \cup nodes) = {}
    BY DEF PoolSound
  <2>1. BlocksSound /\ SpacesSound
    BY DEF PoolInv
  <2>2. ASSUME NEW b \in DOMAIN blocks PROVE blocks[b].last <= blocks[b].end
    <3>2. blocks[b] \in [last : Nat, end : {PoolSize}]
      BY <2>1, BlockEntries
    <3>3. blocks[b].end = PoolSize
      BY <3>2
    <3> QED
      BY <2>1, <3>3 DEF BlocksSound
  <2> QED
    BY <2>1, <2>2 DEF SpacesSound, InPlace, Apart, Header
<1> QED
  BY <1>1, <1>2, <1>3, PTL DEF PoolSpec

=============================================================================
