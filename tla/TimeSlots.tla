------------------------------ MODULE TimeSlots ------------------------------
(***************************************************************************)
(* The clock of the process and the time string of the log (dn_time.cpp).  *)
(* Every event loop calls time_update; a thread that writes to the log     *)
(* loads dfs_err_log_time.data and copies the text it points to, without a *)
(* lock (error_log_core of core/dfs_error_log.cpp).                        *)
(*                                                                         *)
(* A time is a number of milliseconds, as gettimeofday returns it; the     *)
(* text of a slot has two halves, so that a copy and a sprintf on the same *)
(* slot can mix.  The clock of the system only goes forward here.  Each    *)
(* action is one access to a variable that other threads use, or local.    *)
(***************************************************************************)
EXTENDS Integers

CONSTANTS
  Thread,            \* threads that call time_update
  Reader,            \* threads that write to the log
  CACHE_TIME_SLOT,   \* slots of dfs_cache_log_time, a power of two
  Precision,         \* 10: a smaller difference leaves the text alone
  MaxMsec            \* bound on the clock of the system

ASSUME SlotAssumption ==
  /\ CACHE_TIME_SLOT \in Nat /\ CACHE_TIME_SLOT >= 4
  /\ Precision \in Nat \ {0} /\ MaxMsec \in Nat

VARIABLES
  clock,             \* external: what gettimeofday would return
  time_lock, dfs_current_msec,
  dfs_time,          \* the time of the newest text
  slot, text,        \* dfs_cache_log_time
  data,              \* slot that dfs_err_log_time.data points to
  pc, tv,            \* of the threads in time_update
  copy               \* of the readers

updater == <<time_lock, dfs_current_msec, dfs_time, slot, text, data, pc, tv>>
vars == <<clock, updater, copy>>

Slot == 0 .. CACHE_TIME_SLOT - 1
Msec == 0 .. MaxMsec

\* While a copy is on its way, moves counts how often the pointer has been
\* moved since the copy loaded it (history).
Copy == [pc : {"idle", "first", "second", "done"}, at : Slot,
         first : Msec, second : Msec, moves : Nat]

Idle == [pc |-> "idle", at |-> 0, first |-> 0, second |-> 0, moves |-> 0]

\* slot++; slot ^= CACHE_TIME_SLOT - 1.  The sum stays below CACHE_TIME_SLOT,
\* where the exclusive or with a mask of ones is the complement.
next_slot(s) == (CACHE_TIME_SLOT - 1) - (s + 1)

\* main has called time_init, whose time_update has filled a first slot.
Init ==
  /\ clock = 0 /\ time_lock = 0
  /\ dfs_current_msec = 0 /\ dfs_time = 0
  /\ slot = next_slot(0) /\ data = slot
  /\ text = [s \in Slot |-> <<0, 0>>]
  /\ pc = [t \in Thread |-> "idle"]
  /\ tv = [t \in Thread |-> 0]
  /\ copy = [r \in Reader |-> Idle]

\* The clock of the system goes on (external).
tick ==
  /\ clock < MaxMsec
  /\ clock' = clock + 1
  /\ UNCHANGED <<updater, copy>>

-----------------------------------------------------------------------------
\* Mutant of time_trylock: the lock is set without a test.
trylock_no_test(t) ==
  /\ pc[t] = "idle"
  /\ time_lock' = 1
  /\ pc' = [pc EXCEPT ![t] = "get"]
  /\ UNCHANGED <<clock, dfs_current_msec, dfs_time, slot, text, data, tv, copy>>

\* dfs_time_trylock; a thread that finds it taken returns at once, unchanged.
time_trylock(t) ==
  /\ pc[t] = "idle" /\ time_lock = 0
  /\ time_lock' = 1
  /\ pc' = [pc EXCEPT ![t] = "get"]
  /\ UNCHANGED <<clock, dfs_current_msec, dfs_time, slot, text, data, tv, copy>>

\* time_gettimeofday(&tv)
time_gettimeofday(t) ==
  /\ pc[t] = "get"
  /\ tv' = [tv EXCEPT ![t] = clock]
  /\ pc' = [pc EXCEPT ![t] = "store"]
  /\ UNCHANGED <<clock, time_lock, dfs_current_msec, dfs_time, slot, text, data, copy>>

\* dfs_current_msec is stored, and compared with the time of the text.
store_msec(t) ==
  /\ pc[t] = "store"
  /\ dfs_current_msec' = tv[t]
  /\ pc' = [pc EXCEPT ![t] =
       IF tv[t] - dfs_time < Precision THEN "unlock" ELSE "slot"]
  /\ UNCHANGED <<clock, time_lock, dfs_time, slot, text, data, tv, copy>>

\* The next slot is taken, dfs_time set, and sprintf begins on the slot.
print_first(t) ==
  /\ pc[t] = "slot"
  /\ slot' = next_slot(slot)
  /\ dfs_time' = tv[t]
  /\ text' = [text EXCEPT ![next_slot(slot)] = <<tv[t], @[2]>>]
  /\ pc' = [pc EXCEPT ![t] = "print"]
  /\ UNCHANGED <<clock, time_lock, dfs_current_msec, data, tv, copy>>

\* Mutant of print_second: the pointer is moved before the text is complete.
print_second_published(t) ==
  \/ /\ pc[t] = "print" /\ data # slot
     /\ data' = slot
     /\ UNCHANGED <<clock, time_lock, dfs_current_msec, dfs_time, slot, text, pc, tv, copy>>
  \/ /\ pc[t] = "print" /\ data = slot
     /\ text' = [text EXCEPT ![slot] = <<@[1], tv[t]>>]
     /\ pc' = [pc EXCEPT ![t] = "unlock"]
     /\ UNCHANGED <<clock, time_lock, dfs_current_msec, dfs_time, slot, data, tv, copy>>

\* sprintf ends.
print_second(t) ==
  /\ pc[t] = "print"
  /\ text' = [text EXCEPT ![slot] = <<@[1], tv[t]>>]
  /\ pc' = [pc EXCEPT ![t] = "publish"]
  /\ UNCHANGED <<clock, time_lock, dfs_current_msec, dfs_time, slot, data, tv, copy>>

\* dfs_err_log_time.data = p0
publish(t) ==
  /\ pc[t] = "publish"
  /\ data' = slot
  /\ copy' = [r \in Reader |-> [copy[r] EXCEPT !.moves =
       IF copy[r].pc = "idle" THEN 0 ELSE @ + 1]]
  /\ pc' = [pc EXCEPT ![t] = "unlock"]
  /\ UNCHANGED <<clock, time_lock, dfs_current_msec, dfs_time, slot, text, tv>>

\* dfs_time_unlock, of either return
time_unlock(t) ==
  /\ pc[t] = "unlock"
  /\ time_lock' = 0
  /\ pc' = [pc EXCEPT ![t] = "idle"]
  /\ UNCHANGED <<clock, dfs_current_msec, dfs_time, slot, text, data, tv, copy>>

time_update(t) ==
  \/ time_trylock(t) \/ time_gettimeofday(t) \/ store_msec(t) \/ print_first(t)
  \/ print_second(t) \/ publish(t) \/ time_unlock(t)

-----------------------------------------------------------------------------
\* time_logstr: the log loads the pointer.
time_logstr(r) ==
  /\ copy[r].pc = "idle"
  /\ copy' = [copy EXCEPT ![r] =
       [pc |-> "first", at |-> data, first |-> 0, second |-> 0, moves |-> 0]]
  /\ UNCHANGED <<clock, updater>>

\* memory_memcpy of the text, in two halves.
copy_first(r) ==
  /\ copy[r].pc = "first"
  /\ copy' = [copy EXCEPT ![r].pc = "second", ![r].first = text[copy[r].at][1]]
  /\ UNCHANGED <<clock, updater>>

copy_second(r) ==
  /\ copy[r].pc = "second"
  /\ copy' = [copy EXCEPT ![r].pc = "done", ![r].second = text[copy[r].at][2]]
  /\ UNCHANGED <<clock, updater>>

\* The line is written.
log_done(r) ==
  /\ copy[r].pc = "done"
  /\ copy' = [copy EXCEPT ![r] = Idle]
  /\ UNCHANGED <<clock, updater>>

log(r) == time_logstr(r) \/ copy_first(r) \/ copy_second(r) \/ log_done(r)

Next == tick \/ (\E t \in Thread : time_update(t)) \/ (\E r \in Reader : log(r))

Spec == Init /\ [][Next]_vars

-----------------------------------------------------------------------------
\* Types; slot ^= 63 keeps the slot in the table however often it is counted.
TypeOK ==
  /\ clock \in Msec /\ time_lock \in {0, 1}
  /\ dfs_current_msec \in Msec /\ dfs_time \in Msec
  /\ slot \in Slot /\ data \in Slot
  /\ text \in [Slot -> Msec \X Msec]
  /\ pc \in [Thread -> {"idle", "get", "store", "slot", "print", "publish", "unlock"}]
  /\ tv \in [Thread -> Msec]
  /\ copy \in [Reader -> Copy]

\* The clock that all event loops and their timers use never goes back, though
\* several threads set it: the time is taken after the lock.
ClockMonotone == [][dfs_current_msec' >= dfs_current_msec]_vars

\* Whenever no thread is in time_update, the text that the log would copy is
\* whole and less than Precision older than dfs_current_msec.
LogTimeFresh ==
  time_lock = 0 =>
    /\ text[data] = <<dfs_time, dfs_time>>
    /\ dfs_current_msec - dfs_time < Precision

Torn(r) == copy[r].pc = "done" /\ copy[r].first # copy[r].second

\* A copy is disturbed only after the pointer has been moved away from its
\* slot: time_update never prints into the text it has published last.
PublishedTextStable == \A r \in Reader : Torn(r) => copy[r].moves >= 1

\* What the log copies is a whole and recent time, unless the clock was published again
\* while it copied.
LogTextSound == LogTimeFresh /\ PublishedTextStable
=============================================================================
