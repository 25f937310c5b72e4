---------------------------- MODULE WorkerProofs ----------------------------
(***************************************************************************)
(* The worker process: how its threads start, the locks it shares with     *)
(* other processes, and the configuration it runs with. For any number of  *)
(* threads of each stage the two counters that the main thread compares    *)
(* are the numbers of the threads it created and of those that registered, *)
(* although it counts a thread only after the thread runs. For any set of  *)
(* processes a lock restores the signal masks: MasksRestored is not        *)
(* inductive, since what a process loads is the shared field, so PlInv     *)
(* says what the field may hold while nobody has spoiled it, and that it   *)
(* is saved before anyone can come to load it. For any list of directives  *)
(* the options have the values that their directives gave them.            *)
(***************************************************************************)
EXTENDS WorkerThreads, ProcessLock, ConfObjects, BasicFacts

Created == {t \in Thread : tpc[t] # "none"}

ThreadTypes ==
  /\ stage \in 1 .. 4
  /\ tpc \in [Thread -> {"none", "start", "register", "run", "exit", "release", "gone"}]
  /\ registered \subseteq Thread
  /\ mpc \in {"create", "add", "wait", "sleep", "check", "fatal", "loop", "wait_exit",
              "sleep_exit", "exited"}

\* A thread that runs may be created and not counted yet; then the main thread is at add.
Counted ==
  /\ total_threads = IF mpc = "add" THEN Cardinality(Created) - 1 ELSE Cardinality(Created)
  /\ cur_runing_threads = Cardinality(registered)

\* A thread registers once, after its set-up.
RegistersOnce == \A t \in registered : tpc[t] \notin {"none", "start", "register"}

\* Threads exist up to the stage at hand, and those of the earlier stages registered.
StagesDone ==
  \A t \in Thread : /\ tpc[t] # "none" => Stage[t] <= stage
                    /\ Stage[t] < stage => t \in registered

\* What the main thread knows from where it is.
MainKnows ==
  /\ mpc \in {"wait", "sleep", "check"} => \A t \in Thread : Stage[t] = stage => tpc[t] # "none"
  /\ mpc = "check" => Created \subseteq registered
  /\ mpc \in {"loop", "wait_exit", "sleep_exit", "exited"} => Thread \subseteq registered

ThreadInv ==
  ThreadTypes /\ Counted /\ RegistersOnce /\ StagesDone /\ MainKnows /\ NoMissedSignal

\* One more thread of a set of threads is one more in its number.
LEMMA OneMore ==
  ASSUME NEW S \in SUBSET Thread, NEW t \in Thread, t \notin S
  PROVE  Cardinality(S \cup {t}) = Cardinality(S) + 1
  BY ThreadAssumption, FS_Subset, FS_AddElement DEF ThreadAssumption

\* As many registered as were created: all of them.
LEMMA AllRegistered ==
  ASSUME ThreadTypes, RegistersOnce, Cardinality(registered) >= Cardinality(Created)
  PROVE  Created \subseteq registered
<1>1. registered \in SUBSET Created /\ Created \in SUBSET Thread
  BY DEF ThreadTypes, RegistersOnce, Created
<1>2. IsFiniteSet(Created)
  BY <1>1, ThreadAssumption, FS_Subset DEF ThreadAssumption
<1>3. Cardinality(registered) <= Cardinality(Created) /\ IsFiniteSet(registered)
  BY <1>1, <1>2, FS_Subset
<1>4. Cardinality(registered) \in Nat /\ Cardinality(Created) \in Nat
  BY <1>2, <1>3, FS_CardinalityType
<1>5. Cardinality(Created) = Cardinality(registered)
  BY <1>3, <1>4
<1> QED
  BY <1>1, <1>2, <1>5, FS_Subset

\* No thread exists when worker_processer begins.
LEMMA ThreadStart == Init => ThreadInv
<1> SUFFICES ASSUME Init PROVE ThreadInv
  OBVIOUS
<1>1. Created = {}
  BY DEF Init, Created
<1> QED
  BY <1>1, FS_EmptySet, ThreadAssumption
     DEF Init, ThreadInv, ThreadTypes, Counted, RegistersOnce, StagesDone, MainKnows, NoMissedSignal,
         ThreadAssumption, Ns

\* A thread that was created becomes one of Created before total_threads counts it.
LEMMA CreateInv ==
  ASSUME ThreadInv, NEW t \in Thread, thread_create(t)
  PROVE  ThreadInv'
<1> USE DEF ThreadInv, ThreadTypes
<1>1. Created' = Created \cup {t} /\ t \notin Created
  BY DEF thread_create, Created, ToCreate
<1>2. Cardinality(Created') = Cardinality(Created) + 1
  BY <1>1, OneMore DEF Created
<1>3. Cardinality(Created) \in Nat
  BY ThreadAssumption, FS_Subset, FS_CardinalityType DEF ThreadAssumption, Created
<1>4. Counted'
  BY <1>2, <1>3 DEF Counted, thread_create, counters
<1>5. ThreadTypes' /\ RegistersOnce' /\ StagesDone' /\ MainKnows' /\ NoMissedSignal'
  BY ThreadAssumption
     DEF thread_create, ToCreate, RegistersOnce, StagesDone, MainKnows, NoMissedSignal,
         ThreadAssumption
<1> QED
  BY <1>4, <1>5

\* The steps of the main thread besides thread_create leave the threads as they are.
LEMMA MainInv ==
  ASSUME ThreadInv,
         \/ thread_create_fails \/ threads_total_add \/ stage_created
         \/ wait_for_thread_registration \/ check_state
         \/ process_set_doing \/ stop_threads \/ wait_for_thread_exit
  PROVE  ThreadInv'
<1> USE DEF ThreadInv, ThreadTypes
<1>1. Cardinality(Created) \in Nat /\ Cardinality(registered) \in Nat
  BY ThreadAssumption, FS_Subset, FS_CardinalityType DEF ThreadAssumption, Created
<1>2. tpc' = tpc /\ registered' = registered /\ Created' = Created
  BY DEF thread_create_fails, threads_total_add, stage_created, wait_for_thread_registration,
         check_state, process_set_doing, stop_threads, wait_for_thread_exit, threads, Created
<1>3. CASE thread_create_fails
  BY <1>2, <1>3 DEF thread_create_fails, counters, Counted, RegistersOnce, StagesDone,
     MainKnows, NoMissedSignal
<1>4. CASE threads_total_add
  BY <1>1, <1>2, <1>4 DEF threads_total_add, Counted, RegistersOnce, StagesDone,
     MainKnows, NoMissedSignal
<1>5. CASE stage_created
  BY <1>2, <1>5 DEF stage_created, ToCreate, counters, Counted, RegistersOnce, StagesDone,
     MainKnows, NoMissedSignal
<1>6. CASE wait_for_thread_registration
  <2>1. mpc' = "check" => Created \subseteq registered
    BY <1>1, <1>6, AllRegistered DEF wait_for_thread_registration, Counted
  <2> QED
    BY <1>1, <1>2, <1>6, <2>1 DEF wait_for_thread_registration, counters, Counted, RegistersOnce,
       StagesDone, MainKnows, NoMissedSignal
<1>7. CASE check_state
  <2>1. \A t \in Thread : Stage[t] <= stage => t \in registered
    BY <1>7, ThreadAssumption DEF check_state, StagesDone, MainKnows, Created, ThreadAssumption
  <2>2. \/ mpc' = "fatal" /\ stage' = stage
        \/ mpc' = "loop" /\ stage = 4 /\ stage' = stage
        \/ mpc' = "create" /\ stage < 4 /\ stage' = stage + 1
    BY <1>7 DEF check_state, Worker
  <2>3. Counted' /\ RegistersOnce' /\ NoMissedSignal'
    BY <1>2, <1>7, <2>2 DEF check_state, counters, Counted, RegistersOnce, NoMissedSignal
  <2>4. ThreadTypes' /\ StagesDone' /\ MainKnows'
    BY <1>2, <2>1, <2>2, ThreadAssumption DEF StagesDone, MainKnows, ThreadAssumption
  <2> QED
    BY <2>3, <2>4
<1>8. CASE process_set_doing
  BY <1>2, <1>8 DEF process_set_doing, counters, Counted, RegistersOnce, StagesDone,
     MainKnows, NoMissedSignal
<1>9. CASE stop_threads
  BY <1>2, <1>9 DEF stop_threads, counters, Counted, RegistersOnce, StagesDone,
     MainKnows, NoMissedSignal
<1>10. CASE wait_for_thread_exit
  BY <1>2, <1>10 DEF wait_for_thread_exit, counters, Counted, RegistersOnce, StagesDone,
     MainKnows, NoMissedSignal
<1> QED
  BY <1>3, <1>4, <1>5, <1>6, <1>7, <1>8, <1>9, <1>10

\* cond_signal: no one sleeps on init_cond after it, and else the main thread stays.
LEMMA Signalled ==
  ASSUME ThreadTypes, cond_signal
  PROVE  /\ mpc' \notin {"sleep", "sleep_exit"}
         /\ \/ mpc' = mpc
            \/ mpc = "sleep" /\ mpc' = "wait"
            \/ mpc = "sleep_exit" /\ mpc' = "wait_exit"
<1>1. CASE mpc = "sleep"
  BY <1>1 DEF cond_signal
<1>2. CASE mpc = "sleep_exit"
  BY <1>2 DEF cond_signal
<1>3. CASE mpc \notin {"sleep", "sleep_exit"}
  BY <1>3 DEF cond_signal
<1> QED
  BY <1>1, <1>2, <1>3

\* A thread registers for the first time: it is one more in both.
LEMMA RegisterInv ==
  ASSUME ThreadInv, NEW t \in Thread, register_thread_initialized(t)
  PROVE  ThreadInv'
<1> USE DEF ThreadInv, ThreadTypes
<1>1. /\ mpc' \notin {"sleep", "sleep_exit"}
      /\ \/ mpc' = mpc
         \/ mpc = "sleep" /\ mpc' = "wait"
         \/ mpc = "sleep_exit" /\ mpc' = "wait_exit"
  BY Signalled DEF register_thread_initialized
<1>2. Created' = Created /\ registered' = registered \cup {t} /\ t \notin registered
  BY DEF register_thread_initialized, Created, RegistersOnce
<1>3. Cardinality(registered') = Cardinality(registered) + 1
  BY <1>2, OneMore
<1>4. Counted'
  BY <1>1, <1>2, <1>3 DEF register_thread_initialized, Counted
<1>5. ThreadTypes' /\ RegistersOnce' /\ NoMissedSignal'
  BY <1>1 DEF register_thread_initialized, RegistersOnce, NoMissedSignal
<1>6. StagesDone' /\ MainKnows'
  BY <1>1, <1>2 DEF register_thread_initialized, StagesDone, MainKnows
<1> QED
  BY <1>4, <1>5, <1>6

\* The other steps of a thread change neither count that start-up waits for.
LEMMA RunInv ==
  ASSUME ThreadInv, NEW t \in Thread,
         \/ thread_init(t) \/ thread_init_fails(t)
         \/ thread_stops(t) \/ register_thread_exit(t) \/ thread_worker_exit(t)
  PROVE  ThreadInv'
<1> USE DEF ThreadInv, ThreadTypes
<1>1. /\ tpc[t] # "none" /\ stage' = stage /\ registered' = registered
      /\ \E p \in {"register", "exit", "release", "gone"} :
           tpc' = [tpc EXCEPT ![t] = p] /\ (p = "register" => tpc[t] = "start")
      /\ total_threads' = total_threads /\ cur_runing_threads' = cur_runing_threads
  BY DEF thread_init, thread_init_fails, thread_stops, register_thread_exit, thread_worker_exit,
         counters
<1>2. \/ mpc' = mpc /\ cur_exited_threads' = cur_exited_threads
      \/ /\ mpc' \notin {"sleep", "sleep_exit"}
         /\ \/ mpc' = mpc
            \/ mpc = "sleep" /\ mpc' = "wait"
            \/ mpc = "sleep_exit" /\ mpc' = "wait_exit"
  BY Signalled DEF thread_init, thread_init_fails, thread_stops, register_thread_exit,
         thread_worker_exit, counters
<1>3. Created' = Created
  BY <1>1 DEF Created
<1>4. ThreadTypes' /\ RegistersOnce'
  BY <1>1, <1>2 DEF RegistersOnce
<1>5. Counted' /\ NoMissedSignal'
  BY <1>1, <1>2, <1>3 DEF Counted, NoMissedSignal
<1>6. StagesDone' /\ MainKnows'
  BY <1>1, <1>2, <1>3 DEF StagesDone, MainKnows
<1> QED
  BY <1>4, <1>5, <1>6

\* Every step of the process keeps the invariant.
LEMMA ThreadStep == ThreadInv /\ [Next]_vars => ThreadInv'
<1> SUFFICES ASSUME ThreadInv, [Next]_vars PROVE ThreadInv'
  OBVIOUS
<1>1. CASE UNCHANGED vars
  BY <1>1 DEF vars, ThreadInv, ThreadTypes, Counted, Created, RegistersOnce, StagesDone, MainKnows,
     NoMissedSignal
<1>2. CASE Main \/ process_set_doing
  BY <1>2, CreateInv, MainInv DEF Main
<1>3. ASSUME NEW t \in Thread, RunFunc(t) PROVE ThreadInv'
  BY <1>3, RegisterInv, RunInv DEF RunFunc
<1> QED
  BY <1>1, <1>2, <1>3 DEF Next, thread_event_process

\* However many threads a stage has, and whenever they are scheduled, fail or exit, no
\* thread is created before those of the earlier stages have registered, and the main
\* thread sleeps on init_cond only while a registration or an exit is still to come.
THEOREM StartsInStages == SafetySpec => []StartupSound
<1>1. ThreadInv => StagesInOrder
  BY ThreadAssumption DEF ThreadInv, ThreadTypes, StagesDone, MainKnows, StagesInOrder, ThreadAssumption
<1>2. ThreadInv => StartupSound
  BY <1>1 DEF ThreadInv, StartupSound
<1> QED
  BY <1>2, ThreadStart, ThreadStep, PTL DEF SafetySpec

-----------------------------------------------------------------------------
InCall == {"held", "write_wait", "write_try", "read_wait", "restore"}

PlTypeOK == /\ where \in [Procs -> InCall \cup {"idle", "dead"}]
            /\ mask \in [Procs -> {"open", "blocked", "garbage"}]
            /\ sig_prev_mask \in {"open", "blocked", "garbage"}
            /\ holders \subseteq Procs
            /\ writing \in BOOLEAN /\ spoiled \in BOOLEAN

FieldSound == /\ ~ spoiled => sig_prev_mask \in {"open", "garbage"}
              /\ \A p \in Procs : where[p] \in InCall => sig_prev_mask # "garbage"
              /\ live => \A p \in Procs : mask[p] # "garbage"

PlInv == PlTypeOK /\ HolderBlocked /\ MasksRestored /\ FieldSound

(* Opening a call saves the caller's own mask, which is open unless the    *)
(* lock is spoiled.                                                        *)
LEMMA BlockInv ==
    ASSUME PlInv, NEW p \in Procs,
           NEW next \in {"write_wait", "write_try", "read_wait"}, block(p, next)
    PROVE  PlInv'
  <1> USE DEF PlInv
  <1>1. /\ where'[p] = next /\ mask'[p] = "blocked"
        /\ \A q \in Procs : q # p => where'[q] = where[q] /\ mask'[q] = mask[q]
    BY DEF block, PlTypeOK
  <1>2. PlTypeOK'
    BY DEF block, PlTypeOK, InCall
  <1>3. HolderBlocked'
    BY <1>1 DEF block, HolderBlocked
  <1>4. MasksRestored'
    BY <1>1 DEF block, MasksRestored
  <1>5. FieldSound'
    <2>1. mask[p] # "garbage"
      BY DEF block, FieldSound
    <2>2. QED
      BY <2>1, <1>1 DEF block, FieldSound, MasksRestored
  <1>6. QED
    BY <1>2, <1>3, <1>4, <1>5

(* The pthread object: who waits may get it, who tries may be refused.     *)
LEMMA AcquireInv ==
    ASSUME PlInv, NEW p \in Procs, acquire(p) \/ try_fails(p)
    PROVE  PlInv'
  <1> USE DEF PlInv
  <1>1. CASE acquire(p)
    <2>1. /\ where'[p] = "held" /\ where[p] \in {"write_wait", "write_try", "read_wait"}
          /\ \A q \in Procs : q # p => where'[q] = where[q]
      BY <1>1 DEF acquire, CanLock, PlTypeOK
    <2>2. PlTypeOK'
      BY <1>1 DEF acquire, PlTypeOK, InCall
    <2>3. HolderBlocked'
      BY <1>1, <2>1 DEF acquire, CanLock, HolderBlocked
    <2>4. MasksRestored' /\ FieldSound'
      BY <1>1, <2>1 DEF acquire, MasksRestored, FieldSound, InCall
    <2>5. QED
      BY <2>2, <2>3, <2>4
  <1>2. CASE try_fails(p)
    <2>1. /\ where'[p] = "idle"
          /\ \A q \in Procs : q # p => where'[q] = where[q]
      BY <1>2 DEF try_fails, PlTypeOK
    <2>2. PlTypeOK'
      BY <1>2 DEF try_fails, PlTypeOK
    <2>3. HolderBlocked' /\ MasksRestored' /\ FieldSound'
      BY <1>2, <2>1 DEF try_fails, HolderBlocked, MasksRestored, FieldSound, InCall
    <2>4. QED
      BY <2>2, <2>3
  <1>3. QED
    BY <1>1, <1>2

(* Unlocking, then loading the mask from the shared field.                 *)
LEMMA OffInv ==
    ASSUME PlInv, NEW p \in Procs, unlock(p) \/ restore(p)
    PROVE  PlInv'
  <1> USE DEF PlInv
  <1>1. CASE unlock(p)
    <2>1. /\ where'[p] = "restore" /\ where[p] = "held"
          /\ \A q \in Procs : q # p => where'[q] = where[q]
      BY <1>1 DEF unlock, PlTypeOK
    <2>2. PlTypeOK'
      BY <1>1 DEF unlock, PlTypeOK, InCall
    <2>3. HolderBlocked'
      BY <1>1, <2>1 DEF unlock, HolderBlocked
    <2>4. MasksRestored' /\ FieldSound'
      BY <1>1, <2>1 DEF unlock, MasksRestored, FieldSound, InCall
    <2>5. QED
      BY <2>2, <2>3, <2>4
  <1>2. CASE restore(p)
    <2>1. /\ where'[p] = "idle" /\ where[p] = "restore" /\ mask'[p] = sig_prev_mask
          /\ \A q \in Procs : q # p => where'[q] = where[q] /\ mask'[q] = mask[q]
      BY <1>2 DEF restore, PlTypeOK
    <2>2. PlTypeOK'
      BY <1>2 DEF restore, PlTypeOK
    <2>3. HolderBlocked'
      BY <1>2, <2>1 DEF restore, HolderBlocked
    <2>4. sig_prev_mask # "garbage" /\ (~ spoiled => sig_prev_mask = "open")
      BY <2>1 DEF FieldSound, InCall
    <2>5. MasksRestored' /\ FieldSound'
      BY <1>2, <2>1, <2>4 DEF restore, MasksRestored, FieldSound, InCall
    <2>6. QED
      BY <2>2, <2>3, <2>5
  <1>3. QED
    BY <1>1, <1>2

(* Death, reset and release.                                               *)
LEMMA EndInv ==
    ASSUME PlInv, NEW p \in Procs, die(p) \/ reset(p) \/ release(p)
    PROVE  PlInv'
  <1> USE DEF PlInv
  <1>1. CASE die(p)
    <2>1. /\ where'[p] = "dead"
          /\ \A q \in Procs : q # p => where'[q] = where[q]
      BY <1>1 DEF die, PlTypeOK
    <2>2. PlTypeOK'
      BY <1>1 DEF die, PlTypeOK
    <2>3. HolderBlocked' /\ MasksRestored' /\ FieldSound'
      BY <1>1, <2>1 DEF die, HolderBlocked, MasksRestored, FieldSound, InCall
    <2>4. QED
      BY <2>2, <2>3
  <1>2. CASE reset(p)
    <2>1. PlTypeOK'
      BY <1>2 DEF reset, PlTypeOK
    <2>2. \A q \in Procs : where[q] # "held"
      BY <1>2 DEF reset, HolderBlocked
    <2>3. HolderBlocked' /\ MasksRestored' /\ FieldSound'
      BY <1>2, <2>2 DEF reset, HolderBlocked, MasksRestored, FieldSound
    <2>4. QED
      BY <2>1, <2>3
  <1>3. CASE release(p)
    <2>1. /\ mask'[p] = sig_prev_mask
          /\ \A q \in Procs : q # p => mask'[q] = mask[q]
          /\ where' = where /\ \A q \in Procs : where[q] \notin InCall
      BY <1>3 DEF release, PlTypeOK, InCall
    <2>2. PlTypeOK'
      BY <1>3 DEF release, PlTypeOK
    <2>3. HolderBlocked'
      BY <1>3, <2>1 DEF release, HolderBlocked, InCall
    <2>4. MasksRestored'
      BY <1>3, <2>1 DEF release, MasksRestored, FieldSound
    <2>5. FieldSound'
      BY <1>3, <2>1 DEF release, FieldSound
    <2>6. QED
      BY <2>2, <2>3, <2>4, <2>5
  <1>4. QED
    BY <1>1, <1>2, <1>3

(* The invariant is inductive.                                             *)
LEMMA PlInductive == PlSpec => []PlInv
  <1>1. PlInit => PlInv
    BY DEF PlInit, PlInv, PlTypeOK, HolderBlocked, MasksRestored, FieldSound, InCall
  <1>2. PlInv /\ [PlNext]_pl_vars => PlInv'
    <2>1. SUFFICES ASSUME PlInv, [PlNext]_pl_vars PROVE PlInv'
      OBVIOUS
    <2>2. CASE UNCHANGED pl_vars
      BY <2>1, <2>2 DEF pl_vars, PlInv, PlTypeOK, HolderBlocked, MasksRestored, FieldSound
    <2>3. CASE PlNext
      <3>1. PICK p \in Procs :
               \/ dfs_process_lock_on(p) \/ dfs_process_lock_try_on(p)
               \/ dfs_process_rwlock_read_on(p) \/ dfs_process_rwlock_write_on(p)
               \/ dfs_process_rwlock_write_try_on(p)
               \/ acquire(p) \/ try_fails(p) \/ unlock(p) \/ restore(p)
               \/ die(p) \/ reset(p) \/ release(p)
        BY <2>3 DEF PlNext
      <3>2. QED
        BY <2>1, <3>1, BlockInv, AcquireInv, OffInv, EndInv
           DEF dfs_process_lock_on, dfs_process_lock_try_on, dfs_process_rwlock_read_on,
               dfs_process_rwlock_write_on, dfs_process_rwlock_write_try_on
    <2>4. QED
      BY <2>1, <2>2, <2>3
  <1>3. QED
    BY <1>1, <1>2, PTL DEF PlSpec

(* Whoever holds or awaits the lock of dfs_lock.cpp has its signals        *)
(* blocked, and a writer is alone, across deaths and resets.  The mask      *)
(* dfs_process_lock_off loads from the shared field is the open one,        *)
(* whoever saved it, until a try fails or garbage is loaded.                *)
THEOREM SignalsBlockedInside == PlSpec => []LockMasks
  <1>1. PlInv => LockMasks
    BY DEF PlInv, LockMasks
  <1>2. QED
    BY <1>1, PlInductive, PTL

-----------------------------------------------------------------------------
Bind == [addr : DOMAIN PrefixOf, port : Nat]

\* The empty text, which the provers do not take for a string.
Text == STRING \cup {""}

ServerConf == [workers : Nat, recv_buff_len : Nat, send_buff_len : Nat,
               max_tqueue_len : Nat, ns_srv : Text, bind_for_cli : Seq(Bind)]

Object == [name : STRING, conf : ServerConf]

Option == {d \in Directive : d.att = "bind_for_cli" => d.arg.addr \in DOMAIN PrefixOf}

\* What BindsCompatible says of the addresses of one Server.
BindsFit(b) ==
  \A i, j \in DOMAIN b :
    i # j /\ b[i].port = b[j].port =>
      b[i].addr # b[j].addr /\ "any" \notin {b[i].addr, b[j].addr}

\* The fields a directive writes.
Writes(d) == {d.att} \cup IF d.att \in {"recv_buff_len", "send_buff_len"}
                          THEN {FieldAfter(d.att)} ELSE {}

\* An address that conf_parse_bind adds gets on with those it has found.
LEMMA BindAdded ==
  ASSUME NEW c \in ServerConf, NEW d \in Option, d.att = "bind_for_cli",
         BindsFit(c.bind_for_cli), NEW e \in conf_parse_bind(c, d.arg)
  PROVE  /\ e \in ServerConf /\ BindsFit(e.bind_for_cli)
         /\ \A f \in Scalar : e[f] = c[f]
<1> DEFINE b == c.bind_for_cli
           new == [addr |-> d.arg.addr, port |-> d.arg.port]
<1>1. b \in Seq(Bind) /\ d.arg.addr \in DOMAIN PrefixOf /\ d.arg.port \in Nat
  BY DEF ServerConf, Option, Directive
<1>2. /\ \A i \in DOMAIN b : ~bind_ipv4_str_cmp(b[i], d.arg)
      /\ e = [c EXCEPT !.bind_for_cli = Append(b, new)]
  BY DEF conf_parse_bind
<1>3. new \in Bind
  BY <1>1 DEF Bind
<1>4. e \in ServerConf /\ e.bind_for_cli = Append(b, new) /\ \A f \in Scalar : e[f] = c[f]
  <2> HIDE DEF b, new
  <2>0. Append(b, new) \in Seq(Bind)
    BY <1>1, <1>3
  <2>1. PICK a \in Seq(Bind) : a = Append(b, new)
    BY <2>0
  <2>2. e = [c EXCEPT !.bind_for_cli = a]
    BY <1>2, <2>1
  <2>3. e \in ServerConf /\ e.bind_for_cli = a
    BY <2>2 DEF ServerConf
  <2>4. \A f \in Scalar : e[f] = c[f]
    BY <2>2 DEF ServerConf, Scalar
  <2> QED
    BY <2>1, <2>3, <2>4
<1>5. ASSUME NEW i \in DOMAIN b, b[i].port = new.port
      PROVE  b[i].addr # new.addr /\ "any" \notin {b[i].addr, new.addr}
  <2>1. ~(b[i].addr = "any" \/ d.arg.addr \in HasZeros \/ d.arg.addr \in PrefixOf[b[i].addr])
    BY <1>2, <1>5 DEF bind_ipv4_str_cmp
  <2>2. b[i] \in Bind
    BY <1>1
  <2>3. b[i].addr \in PrefixOf[b[i].addr] /\ "any" \in HasZeros
    BY <2>2, ConfAssumption DEF Bind
  <2> QED
    BY <2>1, <2>3
<1>6. BindsFit(Append(b, new))
  <2> DEFINE a == Append(b, new)
  <2>1. /\ DOMAIN a = 1 .. Len(b) + 1 /\ DOMAIN b = 1 .. Len(b) /\ Len(b) \in Nat
        /\ a[Len(b) + 1] = new /\ \A i \in 1 .. Len(b) : a[i] = b[i]
    BY <1>1, <1>3
  <2> HIDE DEF a, new, b
  <2>2. BindsFit(b)
    BY DEF b
  <2>3. ASSUME NEW i \in DOMAIN a, NEW j \in DOMAIN a, i # j, a[i].port = a[j].port
        PROVE  a[i].addr # a[j].addr /\ "any" \notin {a[i].addr, a[j].addr}
    <3>1. CASE i \in DOMAIN b /\ j \in DOMAIN b
      BY <2>1, <2>2, <2>3, <3>1 DEF BindsFit
    <3>2. CASE i \in DOMAIN b /\ j = Len(b) + 1
      BY <2>1, <2>3, <3>2, <1>5
    <3>3. CASE i = Len(b) + 1 /\ j \in DOMAIN b
      BY <2>1, <2>3, <3>3, <1>5
    <3> QED
      BY <2>1, <2>3, <3>1, <3>2, <3>3
  <2>4. BindsFit(a)
    BY <2>3 DEF BindsFit
  <2> QED
    BY <2>4 DEF a
<1> QED
  BY <1>4, <1>6

\* What a directive does to the Server it is for.
LEMMA Handled ==
  ASSUME NEW c \in ServerConf, NEW d \in Option, d.att \in DOMAIN conf_server_init,
         BindsFit(c.bind_for_cli), NEW e \in handler(c, d)
  PROVE  /\ e \in ServerConf /\ BindsFit(e.bind_for_cli)
         /\ \A f \in Scalar \ Writes(d) : e[f] = c[f]
         /\ d.att \in Scalar /\ ValueOf(d) < Word32 => e[d.att] = ValueOf(d)
<1> DEFINE g == d.arg
<1>0. g.n \in Nat /\ g.unit \in STRING /\ g.text \in STRING /\ d.att \in STRING
  BY DEF Option, Directive
<1>1. CASE d.att \in {"workers", "max_tqueue_len"}
  <2>1. e = [c EXCEPT ![d.att] = g.n]
    BY <1>1 DEF handler, conf_parse_int
  <2>2. ValueOf(d) = g.n
    BY <1>1 DEF ValueOf
  <2> HIDE DEF g
  <2>3. e \in ServerConf /\ e.bind_for_cli = c.bind_for_cli /\ e[d.att] = g.n
    BY <1>0, <1>1, <2>1 DEF ServerConf
  <2>4. \A f \in Scalar \ Writes(d) : e[f] = c[f]
    BY <1>1, <2>1 DEF ServerConf, Scalar, Writes
  <2> QED
    BY <2>2, <2>3, <2>4
<1>2. CASE d.att \in {"recv_buff_len", "send_buff_len"}
  <2> DEFINE z == g.n * Units[g.unit]
             w == FieldAfter(d.att)
  <2>1. /\ g.unit \in DOMAIN Units
        /\ e = [c EXCEPT ![d.att] = z % Word32, ![w] = (z \div Word32) % Word32]
    BY <1>2 DEF handler, conf_parse_bytes_size
  <2>2. Units[g.unit] \in Nat /\ Word32 \in Nat \ {0}
    BY <2>1, ConfAssumption
  <2>3. z \in Nat
    BY <1>0, <2>2
  <2>4. ValueOf(d) = z
    BY <1>2 DEF ValueOf
  <2> HIDE DEF z
  <2>5. z % Word32 \in Nat /\ (z \div Word32) \in Nat /\ (z < Word32 => z % Word32 = z)
    BY <2>2, <2>3
  <2>6. (z \div Word32) % Word32 \in Nat
    BY <2>2, <2>5
  <2>7. PICK lo \in Nat, hi \in Nat : lo = z % Word32 /\ hi = (z \div Word32) % Word32
    BY <2>5, <2>6
  <2>8. e = [c EXCEPT ![d.att] = lo, ![w] = hi]
    BY <2>1, <2>7
  <2>9. \/ d.att = "recv_buff_len" /\ w = "send_buff_len"
        \/ d.att = "send_buff_len" /\ w = "max_tqueue_len"
    BY <1>2 DEF FieldAfter
  <2> HIDE DEF w
  <2>10. e \in ServerConf /\ e.bind_for_cli = c.bind_for_cli /\ e[d.att] = lo
    BY <2>8, <2>9 DEF ServerConf
  <2>11. Writes(d) = {d.att, w}
    BY <1>2 DEF Writes, w
  <2>12. \A f \in Scalar \ Writes(d) : e[f] = c[f]
    BY <2>8, <2>9, <2>11 DEF ServerConf, Scalar
  <2> QED
    BY <2>4, <2>5, <2>7, <2>10, <2>12
<1>3. CASE d.att = "ns_srv"
  <2>1. e = [c EXCEPT !.ns_srv = g.text]
    BY <1>3 DEF handler, conf_parse_string
  <2>2. e \in ServerConf /\ e.bind_for_cli = c.bind_for_cli /\ \A f \in Scalar : e[f] = c[f]
    BY <1>0, <2>1 DEF ServerConf, Scalar, Text
  <2> QED
    BY <1>3, <2>2 DEF Scalar
<1>4. CASE d.att = "bind_for_cli"
  <2>1. e \in conf_parse_bind(c, d.arg)
    BY <1>4 DEF handler
  <2> QED
    BY <1>4, <2>1, BindAdded DEF Scalar
<1> QED
  BY <1>1, <1>2, <1>3, <1>4 DEF conf_server_init

\* What holds of the objects and of the options parsed so far, besides OptionsSound: an
\* option was for an object that exists, and comes after the last object.
ConfTypes ==
  /\ types \in Seq([obj : STRING, var : STRING])
  /\ opts \in Seq(Option) /\ given \in Seq(Option)
  /\ vobjects \in Seq(Object)

GivenOf(d) == conf_get_vobject(d.var) # 0

ConfInv ==
  /\ ConfTypes /\ BindsCompatible /\ OptionsKept
  /\ result = "types" => given = << >>
  /\ \A i \in DOMAIN given : GivenOf(given[i])

\* Nothing is parsed when conf_parse_buf begins.
LEMMA ConfStart == CoInit => ConfInv
<1> SUFFICES ASSUME CoInit PROVE ConfInv
  OBVIOUS
<1>1. types \in Seq([obj : STRING, var : STRING])
  BY ConfAssumption DEF CoInit
<1>2. opts \in Seq(Option)
  <2>1. opts \in Seq(Directive) /\ \A i \in DOMAIN opts : opts[i] \in Option
    BY ConfAssumption DEF CoInit, Option
  <2> QED
    BY <2>1
<1>3. given = << >> /\ vobjects = << >>
  BY DEF CoInit
<1> QED
  BY <1>1, <1>2, <1>3 DEF ConfInv, ConfTypes, BindsCompatible, OptionsKept

\* The first object of a name.
LEMMA FirstNamed ==
  ASSUME NEW q \in Seq(Object), NEW nm
  PROVE  LET at == SelectInSeq(q, LAMBDA v : v.name = nm)
         IN  at = 0 \/ (at \in DOMAIN q /\ q[at].name = nm)
<1> DEFINE I == {i \in 1 .. Len(q) : q[i].name = nm}
<1>1. I \in SUBSET Nat /\ DOMAIN q = 1 .. Len(q)
  OBVIOUS
<1>2. I # {} => Min(I) \in I
  BY <1>1, MinIn
<1> HIDE DEF I
<1>3. SelectInSeq(q, LAMBDA v : v.name = nm) = IF I # {} THEN Min(I) ELSE 0
  BY DEF SelectInSeq, I
<1> QED
  BY <1>1, <1>2, <1>3 DEF I

\* What does not touch the options and the objects.
LEMMA ConfKept ==
  ASSUME ConfInv, UNCHANGED <<types, opts, vobjects, given>>, result' # "types"
  PROVE  ConfInv'
<1>1. ConfTypes' /\ BindsCompatible'
  BY DEF ConfInv, ConfTypes, BindsCompatible
<1>2. ASSUME NEW nm PROVE conf_get_vobject(nm)' = conf_get_vobject(nm)
  BY DEF conf_get_vobject, SelectInSeq
<1>3. OptionsKept'
  BY <1>2 DEF ConfInv, OptionsKept, Undoes
<1>4. (\A i \in DOMAIN given : GivenOf(given[i]))'
  BY <1>2 DEF ConfInv, GivenOf
<1> QED
  BY <1>1, <1>3, <1>4 DEF ConfInv

\* An option changes the object it is for and no other.
LEMMA OptionStep ==
  ASSUME ConfInv, conf_parse_option
  PROVE  ConfInv'
<1>1. CASE result' = "error" /\ UNCHANGED <<types, opts, vobjects, given, sconf>>
  BY <1>1, ConfKept
<1> SUFFICES ASSUME ~(result' = "error" /\ UNCHANGED <<types, opts, vobjects, given, sconf>>)
             PROVE  ConfInv'
  BY <1>1
<1> DEFINE d == Head(opts)
           v == conf_get_vobject(d.var)
           c == vobjects[v].conf
<1>2. /\ result = "options" /\ opts # << >>
      /\ v # 0 /\ d.att \in DOMAIN conf_server_init
      /\ given' = Append(given, d) /\ opts' = Tail(opts)
      /\ UNCHANGED <<types, result, sconf>>
      /\ \E e \in handler(c, d) : vobjects' = [vobjects EXCEPT ![v].conf = e]
  BY DEF conf_parse_option, Fail
<1>3. PICK e \in handler(c, d) : vobjects' = [vobjects EXCEPT ![v].conf = e]
  BY <1>2
<1>4. d \in Option /\ opts' \in Seq(Option) /\ given' \in Seq(Option)
  <2> HIDE DEF d
  <2>1. opts \in Seq(Option) /\ given \in Seq(Option) /\ opts # << >>
    BY <1>2 DEF ConfInv, ConfTypes
  <2>2. d \in Option
    BY <2>1 DEF d
  <2> QED
    BY <1>2, <2>1, <2>2
<1> HIDE DEF d
<1>5. v \in DOMAIN vobjects /\ vobjects[v].name = d.var
  BY <1>2, FirstNamed DEF ConfInv, ConfTypes, conf_get_vobject
<1>6. /\ vobjects \in Seq(Object)
      /\ DOMAIN vobjects = 1 .. Len(vobjects) /\ Len(vobjects) \in Nat
  BY DEF ConfInv, ConfTypes
<1>7. c \in ServerConf /\ BindsFit(c.bind_for_cli)
  <2>0. vobjects[v] \in Object
    BY <1>5, <1>6
  <2>1. c \in ServerConf
    BY <2>0 DEF Object
  <2>2. BindsFit(c.bind_for_cli)
    BY <1>5 DEF ConfInv, BindsCompatible, BindsFit
  <2> QED
    BY <2>1, <2>2
<1>8. /\ e \in ServerConf /\ BindsFit(e.bind_for_cli)
      /\ \A f \in Scalar \ Writes(d) : e[f] = c[f]
      /\ d.att \in Scalar /\ ValueOf(d) < Word32 => e[d.att] = ValueOf(d)
  BY <1>2, <1>4, <1>7, Handled
<1> HIDE DEF v
<1>9. /\ vobjects' \in Seq(Object)
      /\ Len(vobjects') = Len(vobjects) /\ DOMAIN vobjects' = DOMAIN vobjects
      /\ \A i \in DOMAIN vobjects : vobjects'[i].name = vobjects[i].name
      /\ \A i \in DOMAIN vobjects : i # v => vobjects'[i] = vobjects[i]
      /\ vobjects'[v].conf = e
  <2> DEFINE w == [vobjects[v] EXCEPT !.conf = e]
  <2>0. vobjects[v] \in Object
    BY <1>5, <1>6
  <2>1. w \in Object /\ w.name = vobjects[v].name /\ w.conf = e
    BY <2>0, <1>8 DEF Object
  <2>2. vobjects' = [vobjects EXCEPT ![v] = w]
    BY <1>3
  <2> HIDE DEF w
  <2>4. /\ vobjects' \in Seq(Object) /\ Len(vobjects') = Len(vobjects)
        /\ DOMAIN vobjects' = DOMAIN vobjects
        /\ vobjects'[v] = w /\ \A i \in DOMAIN vobjects : i # v => vobjects'[i] = vobjects[i]
    BY <1>5, <1>6, <2>1, <2>2
  <2> QED
    BY <2>1, <2>4
<1>10. ASSUME NEW nm PROVE conf_get_vobject(nm)' = conf_get_vobject(nm)
  <2>1. {i \in 1 .. Len(vobjects') : vobjects'[i].name = nm}
          = {i \in 1 .. Len(vobjects) : vobjects[i].name = nm}
    BY <1>6, <1>9
  <2> QED
    BY <2>1 DEF conf_get_vobject, SelectInSeq
<1>11. /\ given \in Seq(Option) /\ Len(given) \in Nat /\ Len(given') = Len(given) + 1
       /\ DOMAIN given = 1 .. Len(given) /\ DOMAIN given' = 1 .. Len(given) + 1
       /\ given'[Len(given) + 1] = d /\ \A i \in 1 .. Len(given) : given'[i] = given[i]
  BY <1>2, <1>4 DEF ConfInv, ConfTypes
<1>12. (\A i \in DOMAIN given : GivenOf(given[i]))'
  <2> SUFFICES ASSUME NEW i \in DOMAIN given' PROVE conf_get_vobject(given'[i].var) # 0
    BY <1>10 DEF GivenOf
  <2>1. CASE i \in DOMAIN given
    BY <1>11, <2>1 DEF ConfInv, GivenOf
  <2>2. CASE i = Len(given) + 1
    BY <1>2, <1>11, <2>2 DEF v
  <2> QED
    BY <1>11, <2>1, <2>2
<1>13. BindsCompatible'
  <2>1. \A i \in DOMAIN vobjects : BindsFit(vobjects[i].conf.bind_for_cli)
    BY DEF ConfInv, BindsCompatible, BindsFit
  <2>2. \A i \in DOMAIN vobjects' : BindsFit(vobjects'[i].conf.bind_for_cli)
    BY <1>8, <1>9, <2>1
  <2> QED
    BY <2>2 DEF BindsCompatible, BindsFit
<1>14. OptionsKept'
  <2> SUFFICES ASSUME NEW i \in DOMAIN given',
                      given'[i].att \in Scalar, ValueOf(given'[i]) < Word32,
                      \A j \in i + 1 .. Len(given') :
                        given'[j].var = given'[i].var =>
                          given'[j].att # given'[i].att /\ ~Undoes(i, j)'
               PROVE  vobjects'[conf_get_vobject(given'[i].var)].conf[given'[i].att]
                        = ValueOf(given'[i])
    BY <1>10 DEF OptionsKept
  <2>1. CASE i = Len(given) + 1
    BY <1>8, <1>9, <1>11, <2>1 DEF v
  <2>2. CASE i \in DOMAIN given
    <3> DEFINE u == conf_get_vobject(given[i].var)
    <3>1. given'[i] = given[i] /\ Len(given) + 1 \in i + 1 .. Len(given')
      BY <1>11, <2>2
    <3>2. \A j \in i + 1 .. Len(given) :
            given[j].var = given[i].var => given[j].att # given[i].att /\ ~Undoes(i, j)
      BY <1>11, <2>2, <3>1 DEF Undoes
    <3>3. vobjects[u].conf[given[i].att] = ValueOf(given[i])
      BY <2>2, <3>1, <3>2 DEF ConfInv, OptionsKept
    <3>4. u \in DOMAIN vobjects /\ vobjects[u].name = given[i].var
      BY <2>2, FirstNamed DEF ConfInv, ConfTypes, GivenOf, conf_get_vobject
    <3> HIDE DEF u
    <3>5. CASE u # v
      BY <1>9, <3>1, <3>3, <3>4, <3>5 DEF u
    <3>6. CASE u = v
      <4>1. d.var = given[i].var
        BY <1>5, <3>4, <3>6
      <4>2. d.att # given[i].att
        BY <1>11, <3>1, <4>1
      <4>3. ~(d.att \in {"recv_buff_len", "send_buff_len"} /\ FieldAfter(d.att) = given[i].att)
        BY <1>11, <3>1, <4>1 DEF Undoes
      <4>4. given[i].att \in Scalar \ Writes(d)
        BY <3>1, <4>2, <4>3 DEF Writes
      <4>5. vobjects'[u].conf[given[i].att] = vobjects[u].conf[given[i].att]
        BY <1>8, <1>9, <3>6, <4>4
      <4> QED
        BY <3>1, <3>3, <4>5 DEF u
    <3> QED
      BY <3>5, <3>6
  <2> QED
    BY <1>11, <2>1, <2>2
<1> QED
  BY <1>2, <1>4, <1>9, <1>12, <1>13, <1>14 DEF ConfInv, ConfTypes
\* A new object has no options yet, and takes no name from another.
LEMMA TypeStep ==
  ASSUME ConfInv, conf_parse_type
  PROVE  ConfInv'
<1>1. CASE Fail
  BY <1>1, ConfKept DEF Fail
<1>2. CASE ~Fail
  <2> DEFINE o == [name |-> Head(types).var, conf |-> conf_server_init]
  <2>1. /\ result = "types" /\ types # << >> /\ vobjects' = Append(vobjects, o)
        /\ types' = Tail(types) /\ UNCHANGED <<opts, given, result, sconf>>
    BY <1>2 DEF conf_parse_type
  <2>2. given = << >> /\ given' = << >>
    BY <2>1 DEF ConfInv
  <2>3. conf_server_init \in ServerConf /\ conf_server_init.bind_for_cli = << >>
    <3>1. PICK b \in Seq(Bind) : b = << >>
      BY << >> \in Seq(Bind)
    <3>0. PICK t \in Text : t = ""
      BY DEF Text
    <3>2. conf_server_init = [workers |-> 0, recv_buff_len |-> 0, send_buff_len |-> 0,
                              max_tqueue_len |-> 0, ns_srv |-> t, bind_for_cli |-> b]
      BY <3>0, <3>1 DEF conf_server_init, NotSet
    <3>3. conf_server_init \in ServerConf
      BY <3>2 DEF ServerConf
    <3>4. conf_server_init.bind_for_cli = b
      BY <3>2
    <3> QED
      BY <3>1, <3>3, <3>4
  <2>4. o \in Object /\ o.conf.bind_for_cli = << >>
    <3>1. Head(types).var \in STRING
      <4> DEFINE R == [obj : STRING, var : STRING]
      <4>1. types \in Seq(R) /\ types # << >>
        BY <2>1 DEF ConfInv, ConfTypes
      <4> HIDE DEF R
      <4>2. Head(types) \in R
        BY <4>1
      <4> QED
        BY <4>2 DEF R
    <3> QED
      BY <2>3, <3>1 DEF Object
  <2> HIDE DEF o
  <2>5. /\ vobjects' \in Seq(Object) /\ DOMAIN vobjects = 1 .. Len(vobjects)
        /\ Len(vobjects) \in Nat
        /\ DOMAIN vobjects' = 1 .. Len(vobjects) + 1
        /\ vobjects'[Len(vobjects) + 1] = o
        /\ \A i \in 1 .. Len(vobjects) : vobjects'[i] = vobjects[i]
    BY <2>1, <2>4 DEF ConfInv, ConfTypes
  <2>6. ConfTypes'
    BY <2>1, <2>5 DEF ConfInv, ConfTypes
  <2>7. BindsCompatible'
    <3>1. \A i \in DOMAIN vobjects : BindsFit(vobjects[i].conf.bind_for_cli)
      BY DEF ConfInv, BindsCompatible, BindsFit
    <3>2. BindsFit(<< >>)
      BY DEF BindsFit
    <3>3. \A i \in DOMAIN vobjects' : BindsFit(vobjects'[i].conf.bind_for_cli)
      BY <2>4, <2>5, <3>1, <3>2
    <3> QED
      BY <3>3 DEF BindsCompatible, BindsFit
  <2> QED
    BY <2>2, <2>6, <2>7 DEF ConfInv, OptionsKept
<1> QED
  BY <1>1, <1>2

\* Parsing keeps the invariant, directive by directive.
LEMMA ConfStep == ConfInv /\ [CoNext]_co_vars => ConfInv'
<1> SUFFICES ASSUME ConfInv, [CoNext]_co_vars PROVE ConfInv'
  OBVIOUS
<1>1. CASE conf_parse_type
  BY <1>1, TypeStep
<1>2. CASE conf_parse_option
  BY <1>2, OptionStep
<1>3. CASE types_done
  BY <1>3, ConfKept DEF types_done
<1>4. CASE options_done
  BY <1>4, ConfKept DEF options_done
<1>5. CASE conf_make_objects_default
  <2>1. result' # "types" /\ UNCHANGED <<types, opts, vobjects, given>>
    BY <1>5 DEF conf_make_objects_default
  <2> QED
    BY <2>1, ConfKept
<1>6. CASE UNCHANGED co_vars
  <2>1. CASE result = "types"
    <3>1. ConfTypes' /\ BindsCompatible'
      BY <1>6 DEF ConfInv, ConfTypes, BindsCompatible, co_vars
    <3>2. given' = << >>
      <4>1. given = << >>
        BY <2>1 DEF ConfInv
      <4> QED
        BY <1>6, <4>1 DEF co_vars
    <3> QED
      BY <3>1, <3>2 DEF ConfInv, OptionsKept
  <2>2. CASE result # "types"
    BY <1>6, <2>2, ConfKept DEF co_vars
  <2> QED
    BY <2>1, <2>2
<1> QED
  BY <1>1, <1>2, <1>3, <1>4, <1>5, <1>6 DEF CoNext

\* Whatever lists of types and options a configuration holds, and however far
\* conf_parse_type and conf_parse_option have come: the addresses of a Server can be
\* bound together, and an option has the value its last directive gave it unless a size
\* of the field before came after it.
THEOREM ConfigurationKept == CoSpec => []OptionsSound
<1>1. ConfInv => OptionsSound
  BY DEF ConfInv, OptionsSound
<1> QED
  BY ConfStart, ConfStep, <1>1, PTL DEF CoSpec
=============================================================================
