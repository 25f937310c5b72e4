----------------------------- MODULE ProcessLock -----------------------------
(***************************************************************************)
(* The two locks processes share through shared memory, the mutex and the  *)
(* read-write lock of core/dfs_lock.cpp.  Taking a lock first blocks the   *)
(* caller's signals and saves the previous mask in a field of the SHARED   *)
(* lock; giving it back first unlocks and then loads the mask from that    *)
(* field, which another process may have written meanwhile.  A process may *)
(* die at any point; a survivor then resets the lock.  The pthread         *)
(* primitives are external.                                                *)
(***************************************************************************)
EXTENDS Integers

CONSTANT Procs

VARIABLES kind,           \* "mutex" or "rwlock": which of the two it is
          live,           \* the lock is created and not yet released
          sig_prev_mask,  \* the field of the lock; garbage until first saved
          holders,        \* processes the pthread object is locked by
          writing,        \* ... and whether it is locked exclusively
          where,          \* where each process is: a call, holding, dead
          mask,           \* the signal mask of each process
          spoiled         \* a try has failed, or garbage has been loaded

pl_vars == <<kind, live, sig_prev_mask, holders, writing, where, mask, spoiled>>

(* dfs_process_lock_create and dfs_process_rwlock_create: the field        *)
(* sig_prev_mask of the fresh memory is not set.                           *)
PlInit == /\ kind \in {"mutex", "rwlock"}
          /\ live = TRUE
          /\ sig_prev_mask = "garbage"
          /\ holders = {}
          /\ writing = FALSE
          /\ where = [p \in Procs |-> "idle"]
          /\ mask = [p \in Procs |-> "open"]
          /\ spoiled = FALSE

(* sigprocmask(SIG_BLOCK, ..., &sig_prev_mask) opens every way of locking. *)
block(p, next) ==
    /\ live /\ where[p] = "idle"
    /\ sig_prev_mask' = mask[p]
    /\ mask' = [mask EXCEPT ![p] = "blocked"]
    /\ where' = [where EXCEPT ![p] = next]
    /\ UNCHANGED <<kind, live, holders, writing, spoiled>>

dfs_process_lock_on(p) == kind = "mutex" /\ block(p, "write_wait")
dfs_process_lock_try_on(p) == kind = "mutex" /\ block(p, "write_try")
dfs_process_rwlock_read_on(p) == kind = "rwlock" /\ block(p, "read_wait")
dfs_process_rwlock_write_on(p) == kind = "rwlock" /\ block(p, "write_wait")
dfs_process_rwlock_write_try_on(p) == kind = "rwlock" /\ block(p, "write_try")

(* pthread_mutex_lock, _rdlock, _wrlock and the successful try.            *)
CanLock(p) == \/ where[p] \in {"write_wait", "write_try"} /\ holders = {}
              \/ where[p] = "read_wait" /\ ~ writing

acquire(p) ==
    /\ CanLock(p)
    /\ holders' = holders \cup {p}
    /\ writing' = (where[p] # "read_wait")
    /\ where' = [where EXCEPT ![p] = "held"]
    /\ UNCHANGED <<kind, live, sig_prev_mask, mask, spoiled>>

(* A try that fails returns at once: the mask is not put back.             *)
try_fails(p) ==
    /\ where[p] = "write_try" /\ ~ CanLock(p)
    /\ where' = [where EXCEPT ![p] = "idle"]
    /\ spoiled' = TRUE
    /\ UNCHANGED <<kind, live, sig_prev_mask, holders, writing, mask>>

(* dfs_process_lock_off and dfs_process_rwlock_off in their two steps.     *)
unlock(p) ==
    /\ where[p] = "held"
    /\ holders' = holders \ {p}
    /\ writing' = FALSE
    /\ where' = [where EXCEPT ![p] = "restore"]
    /\ UNCHANGED <<kind, live, sig_prev_mask, mask, spoiled>>

(* Mutant: the mask is not loaded from the lock.                           *)
restore_skipped(p) ==
    /\ where[p] = "restore"
    /\ where' = [where EXCEPT ![p] = "idle"]
    /\ UNCHANGED <<kind, live, sig_prev_mask, holders, writing, mask, spoiled>>

restore(p) ==
    /\ where[p] = "restore"
    /\ mask' = [mask EXCEPT ![p] = sig_prev_mask]
    /\ where' = [where EXCEPT ![p] = "idle"]
    /\ UNCHANGED <<kind, live, sig_prev_mask, holders, writing, spoiled>>

(* A process dies: what it locked stays locked.                            *)
die(p) == /\ where[p] # "dead"
          /\ where' = [where EXCEPT ![p] = "dead"]
          /\ UNCHANGED <<kind, live, sig_prev_mask, holders, writing, mask, spoiled>>

(* _reset initialises the pthread object again, locked or not; the caller  *)
(* sees to it that only the dead hold it.                                  *)
reset(p) == /\ live /\ where[p] = "idle"
            /\ \A q \in holders : where[q] = "dead"
            /\ holders' = {}
            /\ writing' = FALSE
            /\ UNCHANGED <<kind, live, sig_prev_mask, where, mask, spoiled>>

(* _release loads the saved mask into the caller before it destroys the    *)
(* lock, also when no mask was ever saved.                                 *)
release(p) == /\ live /\ holders = {}
              /\ \A q \in Procs : where[q] \in {"idle", "dead"}
              /\ where[p] = "idle"
              /\ mask' = [mask EXCEPT ![p] = sig_prev_mask]
              /\ live' = FALSE
              /\ spoiled' = (spoiled \/ sig_prev_mask = "garbage")
              /\ UNCHANGED <<kind, sig_prev_mask, holders, writing, where>>

PlNext == \E p \in Procs :
            \/ dfs_process_lock_on(p) \/ dfs_process_lock_try_on(p)
            \/ dfs_process_rwlock_read_on(p) \/ dfs_process_rwlock_write_on(p)
            \/ dfs_process_rwlock_write_try_on(p)
            \/ acquire(p) \/ try_fails(p) \/ unlock(p) \/ restore(p)
            \/ die(p) \/ reset(p) \/ release(p)

PlSpec == PlInit /\ [][PlNext]_pl_vars

-----------------------------------------------------------------------------
(* No signal handler runs in a process that holds the lock or waits for    *)
(* it, and a writer has the lock for itself, deaths and resets included.   *)
HolderBlocked ==
    /\ \A p \in Procs : where[p] \in {"held", "write_wait", "write_try", "read_wait"}
                           => mask[p] = "blocked"
    /\ \A p \in Procs : where[p] = "held" => p \in holders
    /\ writing => \A p, q \in holders : p = q

(* The saved mask is shared, and another process may have overwritten it   *)
(* between unlock and restore, yet every process outside a call has its    *)
(* signals open again - as long as no try has failed and the lock is not   *)
(* released before its first use.                                          *)
MasksRestored ==
    ~ spoiled => \A p \in Procs : where[p] = "idle" => mask[p] = "open"

(* The signals of a process are blocked just while it is in or waits for   *)
(* the lock, though all processes save their masks in the same place.      *)
LockMasks == HolderBlocked /\ MasksRestored
=============================================================================
