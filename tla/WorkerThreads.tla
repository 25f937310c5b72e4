---------------------------- MODULE WorkerThreads ----------------------------
(***************************************************************************)
(* The threads of the worker process (dn_worker_process.cpp).  The main    *)
(* thread creates them in four stages (ns, task, cli, worker) and waits    *)
(* after each until all threads created so far have registered; when told  *)
(* to quit it stops the ns and the worker threads and waits for all exits. *)
(* The counters are guarded by init_lock, init_cond wakes the main thread. *)
(***************************************************************************)
EXTENDS Integers, FiniteSets

CONSTANTS
  Thread,      \* the threads of all stages
  Stage,       \* Stage[t]: 1 ns, 2 task, 3 cli, 4 worker
  InitFails    \* stages whose threads may fail before they register

Ns == 1
Cli == 3
Worker == 4

ASSUME ThreadAssumption == IsFiniteSet(Thread) /\ Stage \in [Thread -> 1 .. 4]
ASSUME FailAssumption == InitFails \subseteq {Cli, Worker}

VARIABLES
  mpc,                  \* what the main thread is doing
  stage,                \* the stage it is at
  total_threads,
  cur_runing_threads,
  cur_exited_threads,
  tpc,                  \* tpc[t]: where the thread is in its run_func
  state,                \* thread->state
  running,              \* thread->running
  quit,                 \* process_doing has QUIT or TERMINATE
  registered            \* history: threads that have registered

vars == <<mpc, stage, total_threads, cur_runing_threads, cur_exited_threads,
          tpc, state, running, quit, registered>>
counters == <<total_threads, cur_runing_threads, cur_exited_threads>>
threads == <<tpc, state, running, registered>>

Init ==
  /\ mpc = "create" /\ stage = Ns
  /\ total_threads = 0 /\ cur_runing_threads = 0 /\ cur_exited_threads = 0
  /\ tpc = [t \in Thread |-> "none"]
  /\ state = [t \in Thread |-> "unstart"]
  /\ running = [t \in Thread |-> FALSE]
  /\ quit = FALSE /\ registered = {}

-----------------------------------------------------------------------------
(* The main thread: worker_processer and create_*_thread.                   *)

ToCreate == {t \in Thread : Stage[t] = stage /\ tpc[t] = "none"}

thread_create(t) ==
  /\ mpc = "create" /\ t \in ToCreate
  /\ tpc' = [tpc EXCEPT ![t] = "start"]
  /\ running' = [running EXCEPT ![t] = TRUE]
  /\ mpc' = "add"
  /\ UNCHANGED <<stage, counters, state, quit, registered>>

\* thread_setup or pthread_create fails: create_*_thread returns NGX_ERROR and
\* worker_processer exits with PROCESS_FATAL_EXIT.
thread_create_fails ==
  /\ mpc = "create" /\ ToCreate # {}
  /\ mpc' = "fatal"
  /\ UNCHANGED <<stage, counters, threads, quit>>

\* Mutant of threads_total_add: thread_create counts the thread as well.
total_add_twice ==
  /\ mpc = "add"
  /\ total_threads' = total_threads + 2
  /\ mpc' = "create"
  /\ UNCHANGED <<stage, cur_runing_threads, cur_exited_threads, threads, quit>>

\* After the thread was created, and without the lock.
threads_total_add ==
  /\ mpc = "add"
  /\ total_threads' = total_threads + 1
  /\ mpc' = "create"
  /\ UNCHANGED <<stage, cur_runing_threads, cur_exited_threads, threads, quit>>

stage_created ==
  /\ mpc = "create" /\ ToCreate = {}
  /\ mpc' = "wait"
  /\ UNCHANGED <<stage, counters, threads, quit>>

\* Mutant of wait_for_thread_registration: off by one.
wait_one_less ==
  /\ mpc = "wait"
  /\ mpc' = IF cur_runing_threads < total_threads - 1 THEN "sleep" ELSE "check"
  /\ UNCHANGED <<stage, counters, threads, quit>>

\* The loop of wait_for_thread_registration: the test is made under init_lock,
\* and pthread_cond_wait gives the lock up only once the thread sleeps.
wait_for_thread_registration ==
  /\ mpc = "wait"
  /\ mpc' = IF cur_runing_threads < total_threads THEN "sleep" ELSE "check"
  /\ UNCHANGED <<stage, counters, threads, quit>>

\* create_*_thread looks at the state of its threads; the next stage follows,
\* after the last one channel_add_event and the event loop.
check_state ==
  LET ok == \A t \in Thread : Stage[t] = stage => state[t] = "ok" IN
  /\ mpc = "check"
  /\ IF ok THEN /\ mpc' = IF stage = Worker THEN "loop" ELSE "create"
                /\ stage' = IF stage = Worker THEN stage ELSE stage + 1
           ELSE mpc' = "fatal" /\ UNCHANGED stage
  /\ UNCHANGED <<counters, threads, quit>>

\* channel_handler (or a signal) sets PROCESS_DOING_QUIT or _TERMINATE.
process_set_doing ==
  /\ mpc = "loop" /\ ~quit
  /\ quit' = TRUE
  /\ UNCHANGED <<mpc, stage, counters, threads>>

\* Mutant of stop_threads: stop_ns_service_thread is forgotten.
stop_workers_only ==
  /\ mpc = "loop" /\ quit
  /\ running' = [t \in Thread |-> running[t] /\ Stage[t] # Worker]
  /\ mpc' = "wait_exit"
  /\ UNCHANGED <<stage, counters, tpc, state, quit, registered>>

\* The event loop finds process_quit_check true: stop_worker_thread and
\* stop_ns_service_thread.
stop_threads ==
  /\ mpc = "loop" /\ quit
  /\ running' = [t \in Thread |-> running[t] /\ Stage[t] \notin {Ns, Worker}]
  /\ mpc' = "wait_exit"
  /\ UNCHANGED <<stage, counters, tpc, state, quit, registered>>

\* wait_for_thread_exit, then process_worker_exit.
wait_for_thread_exit ==
  /\ mpc = "wait_exit"
  /\ mpc' = IF cur_exited_threads < total_threads THEN "sleep_exit" ELSE "exited"
  /\ UNCHANGED <<stage, counters, threads, quit>>

-----------------------------------------------------------------------------
(* The other threads.                                                       *)

\* pthread_cond_signal: the main thread leaves pthread_cond_wait, if it is in.
cond_signal ==
  mpc' = CASE mpc = "sleep" -> "wait"
           [] mpc = "sleep_exit" -> "wait_exit"
           [] OTHER -> mpc

\* The run_func up to me->state = THREAD_ST_OK.
thread_init(t) ==
  /\ tpc[t] = "start"
  /\ tpc' = [tpc EXCEPT ![t] = "register"]
  /\ state' = [state EXCEPT ![t] = "ok"]
  /\ UNCHANGED <<mpc, stage, counters, running, quit, registered>>

\* conn_listening_add_event or dfs_module_workethread_init fails: goto exit.
thread_init_fails(t) ==
  /\ tpc[t] = "start" /\ Stage[t] \in InitFails
  /\ tpc' = [tpc EXCEPT ![t] = "exit"]
  /\ state' = [state EXCEPT ![t] = IF Stage[t] = Cli THEN "exit" ELSE @]
  /\ UNCHANGED <<mpc, stage, counters, running, quit, registered>>

\* Count the thread and wake the main thread, under init_lock.
register_thread_initialized(t) ==
  /\ tpc[t] = "register"
  /\ cur_runing_threads' = cur_runing_threads + 1
  /\ tpc' = [tpc EXCEPT ![t] = "run"]
  /\ cond_signal
  /\ UNCHANGED <<stage, total_threads, cur_exited_threads, state, running, quit>>
  /\ registered' = registered \cup {t}

\* One turn of the while (me->running) loop; for the main thread, of its own.
thread_event_process ==
  /\ mpc = "loop" \/ \E t \in Thread : tpc[t] = "run" /\ running[t]
  /\ UNCHANGED vars

\* The while (me->running) loop ends.
thread_stops(t) ==
  /\ tpc[t] = "run" /\ ~running[t]
  /\ tpc' = [tpc EXCEPT ![t] = "exit"]
  /\ UNCHANGED <<mpc, stage, counters, state, running, quit, registered>>

register_thread_exit(t) ==
  /\ tpc[t] = "exit"
  /\ cur_exited_threads' = cur_exited_threads + 1
  /\ tpc' = [tpc EXCEPT ![t] = "release"]
  /\ cond_signal
  /\ UNCHANGED <<stage, total_threads, cur_runing_threads, state, running, quit,
                 registered>>

\* thread_worker_exit and thread_task_exit: state, and the modules' release.
thread_worker_exit(t) ==
  /\ tpc[t] = "release"
  /\ tpc' = [tpc EXCEPT ![t] = "gone"]
  /\ state' = [state EXCEPT ![t] = "exit"]
  /\ UNCHANGED <<mpc, stage, counters, running, quit, registered>>

-----------------------------------------------------------------------------
Main ==
  \/ thread_create_fails \/ threads_total_add \/ stage_created
  \/ wait_for_thread_registration \/ check_state
  \/ stop_threads \/ wait_for_thread_exit
  \/ \E t \in Thread : thread_create(t)

RunFunc(t) ==
  \/ thread_init(t) \/ thread_init_fails(t) \/ register_thread_initialized(t)
  \/ thread_stops(t) \/ register_thread_exit(t) \/ thread_worker_exit(t)

\* exit() ends all threads.
Ended == mpc \in {"fatal", "exited"}

Next ==
  \/ ~Ended /\ (Main \/ process_set_doing \/ thread_event_process
                \/ \E t \in Thread : RunFunc(t))
  \/ Ended /\ UNCHANGED vars

SafetySpec == Init /\ [][Next]_vars

\* Threads are scheduled; nobody is obliged to send a quit command.
Fairness == WF_vars(~Ended /\ Main) /\ \A t \in Thread : WF_vars(~Ended /\ RunFunc(t))

Spec == SafetySpec /\ Fairness

-----------------------------------------------------------------------------
\* The stages are in order: no thread of a stage exists before every thread of
\* the earlier stages has registered.  No connection can reach the cli thread
\* before there are task threads to dispatch to.  When the main loop runs, all
\* have registered.
StagesInOrder ==
  /\ \A t, u \in Thread :
       Stage[t] < Stage[u] /\ tpc[u] # "none" => t \in registered
  /\ mpc \in {"loop", "wait_exit", "sleep_exit", "exited"} => registered = Thread

\* The main thread never sleeps on init_cond when what it waits for has already
\* happened, although total_threads is incremented after the thread runs.
NoMissedSignal ==
  /\ mpc = "sleep" => cur_runing_threads < total_threads
  /\ mpc = "sleep_exit" => cur_exited_threads < total_threads

\* The counters under init_lock keep the stages of start-up apart and wake the main
\* thread, in whatever order threads register, exit and are counted.
StartupSound == StagesInOrder /\ NoMissedSignal

Failed(t) == tpc[t] \in {"exit", "release", "gone"} /\ t \notin registered

\* Start-up ends, in the event loop or with a fatal exit, unless a thread fails
\* before it registers: then the main thread may wait for it for ever.
StartupCompletes == <>(mpc \in {"loop", "fatal"} \/ \E t \in Thread : Failed(t))

\* A quit command ends all ns and worker threads.
QuitStopsThreads ==
  \A t \in Thread : Stage[t] \in {Ns, Worker} =>
    (quit ~> tpc[t] \in {"release", "gone"})
=============================================================================
