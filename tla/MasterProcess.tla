---------------------------- MODULE MasterProcess ----------------------------
(***************************************************************************)
(* The master process (dn_process.cpp): its table of workers, the socket   *)
(* pair it keeps with each of them (core/dfs_channel.cpp), and the loop    *)
(* that reaps, respawns and ends.  The loop refreshes the cached time only *)
(* when no flag is set, and a forked worker inherits the flags.            *)
(*                                                                         *)
(* External: fork, waitpid and the descriptors, the exits of the workers,  *)
(* and the signal handler that sets process_doing.                         *)
(***************************************************************************)
EXTENDS Integers, FiniteSets, FiniteSetsExt

CONSTANTS
  PROCESSES_MAX,
  MaxStarts,     \* bound on calls of process_start_workers, the program's is 1
  MaxForks,      \* bound on processes forked; then fork fails
  MaxPairs,      \* bound on socket pairs open at once; then socketpair fails
  MaxTime,       \* bound on the clock
  MAX_RESTART_NUM

ASSUME MasterAssumption ==
  /\ PROCESSES_MAX \in Nat /\ MaxForks \in Nat /\ MaxPairs \in Nat
  /\ MAX_RESTART_NUM \in Nat

VARIABLES
  processes,     \* slot -> pid, ps, restart_gap and channel; pid 0 is none
  process_last, process_slot,
  process_doing, \* the flags: REAP, QUIT (or TERMINATE), BACKUP
  alive_flag,    \* live of process_master_cycle
  clock, tv_sec, \* the time, and dfs_time->tv_sec
  phase,         \* where the master is
  slot_i,        \* i of process_reap_workers
  starts,        \* calls of process_start_workers so far
  running, zombies,  \* external: children that run, that wait for waitpid
  quitting,      \* children forked with QUIT among the inherited flags
  forks,         \* pids given out
  pairs,         \* external: socket pairs open in the master
  lost,          \* those no slot leads to any more
  inbox          \* child -> commands in its channel

table_vars == <<processes, process_last, process_slot, pairs, lost>>
child_vars == <<running, zombies, quitting, forks>>
mp_vars == <<table_vars, child_vars, process_doing, alive_flag, clock, tv_sec, phase,
             slot_i, starts, inbox>>

Slot == 0 .. PROCESSES_MAX - 1
Pid == 1 .. MaxForks
Pair == 1 .. MaxPairs
InUse(s) == s < process_last /\ processes[s].pid # 0

MpInit ==
  /\ processes = [s \in Slot |-> [pid |-> 0, ps |-> "none", restart_gap |-> 0, channel |-> 0]]
  /\ process_last = 0 /\ process_slot = 0
  /\ process_doing = {} /\ alive_flag = TRUE
  /\ clock = 0 /\ tv_sec = 0
  /\ phase = "start" /\ slot_i = 0 /\ starts = 0
  /\ running = {} /\ zombies = {} /\ quitting = {} /\ forks = 0
  /\ pairs = {} /\ lost = {}
  /\ inbox = [p \in Pid |-> {}]

\* PROCESS_SLOT_AUTO: the first unused slot below process_last, or process_last.
auto_slot == Min({s \in 0 .. process_last : s = process_last \/ ~InUse(s)})

\* Mutant of spawn_fails: the pair of a failed spawn is left open by every failure.
spawn_fails_open(slot) ==
  /\ \/ UNCHANGED <<processes, pairs, lost, process_slot>>
     \/ \E d \in Pair \ pairs :
          /\ processes' = [processes EXCEPT ![slot].channel = d]
          /\ process_slot' \in {process_slot, slot}
          /\ pairs' = pairs \cup {d} /\ UNCHANGED lost
  /\ UNCHANGED <<process_last, child_vars>>

\* process_spawn fails: no socketpair; a call on the new pair fails, and the pair is
\* closed, but not when the call is F_SETOWN; or fork fails, process_slot being set.
spawn_fails(slot) ==
  /\ \/ UNCHANGED <<processes, pairs, lost, process_slot>>
     \/ /\ Pair # pairs
        /\ processes' = [processes EXCEPT ![slot].channel = Min(Pair \ pairs)]
        /\ \/ process_slot' \in {process_slot, slot} /\ UNCHANGED <<pairs, lost>>
           \/ /\ pairs' = pairs \cup {Min(Pair \ pairs)}
              /\ lost' = lost \cup {Min(Pair \ pairs)}
              /\ UNCHANGED process_slot
  /\ UNCHANGED <<process_last, child_vars>>

spawn_ok(slot) ==
  /\ Pair # pairs /\ forks < MaxForks
  /\ LET pid == forks + 1
         d == Min(Pair \ pairs)
     IN /\ processes' = [processes EXCEPT ![slot] =
             [pid |-> pid, ps |-> "RUNNING", restart_gap |-> tv_sec, channel |-> d]]
        /\ pairs' = pairs \cup {d}
        /\ running' = running \cup {pid}
        /\ quitting' = IF "QUIT" \in process_doing THEN quitting \cup {pid} ELSE quitting
        /\ forks' = pid
  /\ process_slot' = slot
  /\ process_last' = IF slot = process_last THEN process_last + 1 ELSE process_last
  /\ UNCHANGED <<lost, zombies>>

\* process_broadcast: to every worker but the new one (process_slot).  A worker that
\* has gone is written to as well; what was sent to it is lost.
process_broadcast ==
  inbox' = [p \in Pid |->
    IF \E s \in Slot : InUse(s) /\ processes[s].pid = p /\ processes[s].ps # "EXITED"
                          /\ p \in running
    THEN inbox[p] \cup {"OPEN"} ELSE inbox[p]]

process_start_workers ==
  /\ phase = "start" /\ starts < MaxStarts
  /\ starts' = starts + 1
  /\ \/ /\ auto_slot < PROCESSES_MAX
        /\ spawn_ok(auto_slot)
        /\ process_broadcast
        /\ UNCHANGED phase
     \/ /\ IF auto_slot < PROCESSES_MAX THEN spawn_fails(auto_slot)
           ELSE UNCHANGED <<table_vars, child_vars>>
        /\ phase' = "failed"
        /\ UNCHANGED inbox
  /\ UNCHANGED <<process_doing, alive_flag, clock, tv_sec, slot_i>>

\* The loop of process_master_cycle begins.
master_loop ==
  /\ phase = "start" /\ starts > 0
  /\ phase' = "outer"
  /\ UNCHANGED <<table_vars, child_vars, process_doing, alive_flag, clock, tv_sec,
                 slot_i, starts, inbox>>

time_update ==
  /\ phase = "outer"
  /\ tv_sec' = clock
  /\ phase' = IF process_doing = {} THEN "outer" ELSE "inner"
  /\ UNCHANGED <<table_vars, child_vars, process_doing, alive_flag, clock, slot_i,
                 starts, inbox>>

\* while (process_doing) ends.
inner_ends ==
  /\ phase = "inner" /\ process_doing = {}
  /\ phase' = "outer"
  /\ UNCHANGED <<table_vars, child_vars, process_doing, alive_flag, clock, tv_sec,
                 slot_i, starts, inbox>>

\* The flag is cleared, then process_get_status collects every child that has exited;
\* a pid that no slot has is booked on the slot after the last.
process_get_status ==
  /\ phase = "inner" /\ "REAP" \in process_doing
  /\ process_doing' = process_doing \ {"REAP"}
  /\ zombies' = {}
  /\ processes' = [s \in Slot |->
       IF \/ InUse(s) /\ processes[s].pid \in zombies
          \/ s = process_last /\ \E z \in zombies : \A t \in Slot :
                                    ~(InUse(t) /\ processes[t].pid = z)
       THEN [processes[s] EXCEPT !.ps = "EXITED"] ELSE processes[s]]
  /\ phase' = "reap" /\ slot_i' = 0
  /\ alive_flag' = FALSE
  /\ UNCHANGED <<process_last, process_slot, pairs, lost, running, quitting, forks,
                 clock, tv_sec, starts, inbox>>

\* process_reap_workers, one slot: unused, or a worker that is not known to have exited.
reap_skip ==
  /\ phase = "reap" /\ slot_i < process_last
  /\ ~InUse(slot_i) \/ processes[slot_i].ps # "EXITED"
  /\ alive_flag' = (alive_flag \/ InUse(slot_i))
  /\ slot_i' = slot_i + 1
  /\ UNCHANGED <<table_vars, child_vars, process_doing, clock, tv_sec, phase, starts, inbox>>

\* Mutant of reap_detach: the worker counts as live though it is not respawned.
reap_detach_live ==
  /\ phase = "reap" /\ slot_i < process_last
  /\ InUse(slot_i) /\ processes[slot_i].ps = "EXITED"
  /\ processes' = [processes EXCEPT ![slot_i] = [@ EXCEPT !.pid = 0, !.channel = 0]]
  /\ pairs' = pairs \ {processes[slot_i].channel}
  /\ inbox' = [inbox EXCEPT ![processes[slot_i].pid] = {}]
  /\ alive_flag' = TRUE
  /\ IF tv_sec - processes[slot_i].restart_gap <= MAX_RESTART_NUM
     THEN slot_i' = slot_i + 1 /\ UNCHANGED phase
     ELSE phase' = "respawn" /\ UNCHANGED slot_i
  /\ UNCHANGED <<process_last, process_slot, lost, child_vars, process_doing,
                 clock, tv_sec, starts>>

\* A worker that has exited: its pair is closed, and it is respawned unless it was
\* started, by the cached time, just before.
reap_detach ==
  /\ phase = "reap" /\ slot_i < process_last
  /\ InUse(slot_i) /\ processes[slot_i].ps = "EXITED"
  /\ processes' = [processes EXCEPT ![slot_i] = [@ EXCEPT !.pid = 0, !.channel = 0]]
  /\ pairs' = pairs \ {processes[slot_i].channel}
  /\ inbox' = [inbox EXCEPT ![processes[slot_i].pid] = {}]
  /\ IF tv_sec - processes[slot_i].restart_gap <= MAX_RESTART_NUM
     THEN slot_i' = slot_i + 1 /\ UNCHANGED phase
     ELSE phase' = "respawn" /\ UNCHANGED slot_i
  /\ UNCHANGED <<process_last, process_slot, lost, child_vars, process_doing, alive_flag,
                 clock, tv_sec, starts>>

\* process_spawn into the same slot; no broadcast follows.
respawn ==
  /\ phase = "respawn"
  /\ \/ spawn_ok(slot_i) /\ alive_flag' = TRUE
     \/ spawn_fails(slot_i) /\ UNCHANGED alive_flag
  /\ slot_i' = slot_i + 1
  /\ phase' = "reap"
  /\ UNCHANGED <<process_doing, clock, tv_sec, starts, inbox>>

\* Mutant of reap_done: the time is refreshed before the loop goes on.
reap_done_fresh ==
  /\ phase = "reap" /\ slot_i = process_last
  /\ phase' = "inner" /\ tv_sec' = clock
  /\ UNCHANGED <<table_vars, child_vars, process_doing, alive_flag, clock,
                 slot_i, starts, inbox>>

reap_done ==
  /\ phase = "reap" /\ slot_i = process_last
  /\ phase' = "inner"
  /\ UNCHANGED <<table_vars, child_vars, process_doing, alive_flag, clock, tv_sec,
                 slot_i, starts, inbox>>

master_quits ==
  /\ phase = "inner" /\ "REAP" \notin process_doing
  /\ ~alive_flag /\ "QUIT" \in process_doing
  /\ phase' = "ended"
  /\ UNCHANGED <<table_vars, child_vars, process_doing, alive_flag, clock, tv_sec,
                 slot_i, starts, inbox>>

\* process_notify_workers_backup
process_notify_workers_backup ==
  /\ phase = "inner" /\ "REAP" \notin process_doing
  /\ "BACKUP" \in process_doing /\ alive_flag
  /\ process_doing' = process_doing \ {"BACKUP"}
  /\ inbox' = [p \in Pid |->
       IF p \in running /\ \E s \in Slot : InUse(s) /\ processes[s].pid = p
       THEN inbox[p] \cup {"BACKUP"} ELSE inbox[p]]
  /\ UNCHANGED <<table_vars, child_vars, alive_flag, clock, tv_sec, phase, slot_i, starts>>

MasterStep ==
  \/ process_start_workers \/ master_loop \/ time_update \/ inner_ends
  \/ process_get_status \/ reap_skip \/ reap_detach \/ respawn \/ reap_done
  \/ master_quits \/ process_notify_workers_backup

\* channel_handler of a worker drains its channel.
channel_handler(p) ==
  /\ p \in running /\ inbox[p] # {}
  /\ inbox' = [inbox EXCEPT ![p] = {}]
  /\ UNCHANGED <<table_vars, child_vars, process_doing, alive_flag, clock, tv_sec, phase,
                 slot_i, starts>>

\* A worker ends, of itself or because it is told to, and SIGCHLD sets REAP.
worker_exits(p) ==
  /\ p \in running /\ phase \notin {"ended", "failed"}
  /\ running' = running \ {p} /\ zombies' = zombies \cup {p}
  /\ process_doing' = process_doing \cup {"REAP"}
  /\ inbox' = [inbox EXCEPT ![p] = {}]
  /\ UNCHANGED <<table_vars, quitting, forks, alive_flag, clock, tv_sec, phase, slot_i, starts>>

\* process_set_doing from a signal handler of the master
process_set_doing(flag) ==
  /\ phase \notin {"start", "ended", "failed"}
  /\ flag \notin process_doing
  /\ process_doing' = process_doing \cup {flag}
  /\ UNCHANGED <<table_vars, child_vars, alive_flag, clock, tv_sec, phase, slot_i, starts, inbox>>

tick == /\ clock < MaxTime
        /\ clock' = clock + 1
        /\ UNCHANGED <<table_vars, child_vars, process_doing, alive_flag, tv_sec, phase,
                       slot_i, starts, inbox>>

MpNext ==
  \/ MasterStep
  \/ \E p \in Pid : channel_handler(p) \/ worker_exits(p)
  \/ \E flag \in {"QUIT", "BACKUP"} : process_set_doing(flag)
  \/ tick

\* The master runs.  No worker is obliged to exit: nothing in the code makes it.
MpFairness == WF_mp_vars(MasterStep)

MpSpec == MpInit /\ [][MpNext]_mp_vars /\ MpFairness

-----------------------------------------------------------------------------
\* Each child that has not been waited for has one slot, each used slot is some child's
\* or one that has been booked as exited, and the pairs open in the master are exactly
\* those of the used slots and the ones lost to a failing F_SETOWN: no respawn and no
\* failure closes the pair of another worker or books the exit of another.
TableSound ==
  /\ \A p \in running \cup zombies :
       Cardinality({s \in Slot : InUse(s) /\ processes[s].pid = p}) = 1
  /\ \A s \in Slot : InUse(s) =>
       \/ processes[s].ps = "RUNNING" /\ processes[s].pid \in running \cup zombies
       \/ processes[s].ps = "EXITED" /\ processes[s].pid \notin running \cup zombies
  /\ pairs = lost \cup {processes[s].channel : s \in {t \in Slot : InUse(t)}}
  /\ \A s, t \in Slot : InUse(s) /\ InUse(t) /\ s # t =>
       processes[s].channel # processes[t].channel
  /\ \A s \in Slot : InUse(s) => processes[s].channel \notin lost

\* live is computed before the children that decide it may change again, yet the master
\* never returns from its loop while a worker runs.
MasterOutlives == phase = "ended" => running = {} /\ zombies = {}

\* The table always tells the master the truth about its children, and it outlives them.
ChildrenAccounted == TableSound /\ MasterOutlives

\* process_reap_workers respawns a worker also when the master is to quit.  The cached time
\* stands still for the loop while a flag is set, so what is respawned then will have been
\* started "just before" when it exits: each slot is filled once more at most.
QuitRespawnsOnce == Cardinality(quitting) <= process_last

\* Told to quit, the master ends if its workers, those it respawns meanwhile included, have
\* all exited for good.  Whether they do is up to them: the master tells them nothing.
MasterEnds ==
  <>[](running = {}) => (("QUIT" \in process_doing) ~> (phase \in {"ended", "failed"}))
=============================================================================
