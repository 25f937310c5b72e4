----------------------------- MODULE MasterProofs -----------------------------
(***************************************************************************)
(* The master process, for any number of slots, forks, descriptors,        *)
(* addresses and tries.  The first part is about the table of the master:  *)
(* every child has its slot and its pair whatever fails, the master does   *)
(* not end before its children, and once it quits a slot is refilled at    *)
(* most as often as MAX_RESTART_NUM allows.  The second is about           *)
(* conn_listening_open: it loses no descriptor and reports no success it   *)
(* did not have.  The third composes them to process_master_cycle: the two *)
(* share no variable, so what is proved of each holds of the whole, and    *)
(* the order between them is what lets a worker inherit every socket.      *)
(***************************************************************************)
EXTENDS MasterStartup, BasicFacts

Process == [pid : 0 .. MaxForks, ps : {"none", "RUNNING", "EXITED"}, restart_gap : Nat,
            channel : 0 .. MaxPairs]

TableTypes ==
  /\ processes \in [Slot -> Process]
  /\ process_last \in 0 .. PROCESSES_MAX
  /\ forks \in 0 .. MaxForks
  /\ running \subseteq 1 .. forks /\ zombies \subseteq 1 .. forks
  /\ running \cap zombies = {}
  /\ pairs \subseteq Pair /\ lost \subseteq Pair

\* A used slot is one child's and a child has a used slot.
Owned ==
  /\ \A sl \in Slot : InUse(sl) => processes[sl].pid \in 1 .. forks
  /\ \A sl, t \in Slot : InUse(sl) /\ InUse(t) /\ processes[sl].pid = processes[t].pid => sl = t
  /\ \A p \in running \cup zombies : \E sl \in Slot : InUse(sl) /\ processes[sl].pid = p
  /\ \A sl \in Slot : InUse(sl) =>
       \/ processes[sl].ps = "RUNNING" /\ processes[sl].pid \in running \cup zombies
       \/ processes[sl].ps = "EXITED" /\ processes[sl].pid \notin running \cup zombies

\* An open pair is lost or one used slot's.
PairsOwned ==
  /\ \A d \in Pair : d \in pairs <=>
       d \in lost \/ \E sl \in Slot : InUse(sl) /\ processes[sl].channel = d
  /\ \A sl, t \in Slot :
       InUse(sl) /\ InUse(t) /\ processes[sl].channel = processes[t].channel => sl = t
  /\ \A sl \in Slot : InUse(sl) => processes[sl].channel \in Pair \ lost

Table == TableTypes /\ Owned /\ PairsOwned

\* Where the loop is: live is false only while no slot it has passed is used.
Where ==
  /\ tv_sec \in Nat /\ clock \in Nat /\ slot_i \in 0 .. process_last
  /\ phase \in {"start", "failed", "outer", "inner", "reap", "respawn", "ended"}
  /\ (phase = "start" => alive_flag) /\ (phase = "ended" => ~alive_flag)
  /\ phase = "respawn" => slot_i < process_last /\ ~InUse(slot_i)
  /\ phase \in {"reap", "respawn"} /\ ~alive_flag =>
       \A sl \in Slot : sl < slot_i => ~InUse(sl)
  /\ phase \in {"outer", "inner", "ended"} /\ ~alive_flag => \A sl \in Slot : ~InUse(sl)

MpInv == Table /\ Where

\* The slot process_spawn takes is not in use.
LEMMA AutoSlot ==
  ASSUME TableTypes
  PROVE  auto_slot \in 0 .. process_last /\ ~InUse(auto_slot)
<1> DEFINE S == {sl \in 0 .. process_last : sl = process_last \/ ~InUse(sl)}
<1>1. S \in SUBSET Nat /\ process_last \in S
  BY MasterAssumption DEF TableTypes, MasterAssumption
<1>2. Min(S) \in S
  <2> HIDE DEF S
  <2> QED
    BY <1>1, MinIn
<1>3. \A sl \in S : sl \in 0 .. process_last /\ ~InUse(sl)
  <2>1. ~InUse(process_last)
    BY MasterAssumption DEF TableTypes, InUse, MasterAssumption
  <2> QED
    BY <2>1
<1> QED
  BY <1>2, <1>3 DEF auto_slot

\* socketpair returns a pair that is not open.
LEMMA FreshPair ==
  ASSUME TableTypes, Pair # pairs
  PROVE  Min(Pair \ pairs) \in Pair \ pairs
<1>1. Pair \ pairs \in SUBSET Nat
  BY MasterAssumption DEF Pair, MasterAssumption
<1>2. Pair \ pairs # {}
  BY DEF TableTypes
<1> QED
  BY <1>1, <1>2, MinIn

\* What a successful process_spawn leaves in the table.
LEMMA SpawnOk ==
  ASSUME Table, tv_sec \in Nat,
         NEW slot \in Slot, slot <= process_last, ~InUse(slot), spawn_ok(slot)
  PROVE  /\ Table'
         /\ \A sl \in Slot : InUse(sl)' <=> sl = slot \/ InUse(sl)
         /\ process_last <= process_last'
<1> USE MasterAssumption DEF MasterAssumption, Table, TableTypes, Slot
<1> DEFINE pid == forks + 1
           d == Min(Pair \ pairs)
           new == [pid |-> pid, ps |-> "RUNNING", restart_gap |-> tv_sec, channel |-> d]
<1>1. d \in Pair /\ d \notin pairs
  BY FreshPair DEF spawn_ok
<1>2. /\ forks' = pid /\ running' = running \cup {pid} /\ pairs' = pairs \cup {d}
      /\ zombies' = zombies /\ lost' = lost
      /\ processes' = [processes EXCEPT ![slot] = new]
      /\ process_last' = IF slot = process_last THEN process_last + 1 ELSE process_last
      /\ pid \in 1 .. MaxForks
  BY DEF spawn_ok
<1> HIDE DEF d
<1>3. new \in Process
  BY <1>1, <1>2 DEF Process, Pair
<1>4. /\ processes'[slot] = new
      /\ \A sl \in Slot : sl # slot => processes'[sl] = processes[sl]
  BY <1>2
<1>5. \A sl \in Slot : InUse(sl)' <=> sl = slot \/ InUse(sl)
  BY <1>2, <1>4 DEF InUse
<1>6. TableTypes'
  BY <1>1, <1>2, <1>3
<1> HIDE DEF new, TableTypes
<1>7. new.pid = pid /\ new.ps = "RUNNING" /\ new.channel = d
  BY DEF new
<1>8. pid \notin 1 .. forks /\ 1 .. forks \subseteq 1 .. forks' /\ pid \in 1 .. forks'
  BY <1>2 DEF TableTypes
<1>9. running \subseteq 1 .. forks /\ zombies \subseteq 1 .. forks
  BY DEF TableTypes
<1> HIDE DEF pid, Slot
<1>10. Owned'
  BY <1>2, <1>4, <1>5, <1>7, <1>8, <1>9 DEF Owned
<1>11. PairsOwned'
  BY <1>1, <1>2, <1>4, <1>5, <1>7 DEF PairsOwned
<1>12. process_last <= process_last'
  BY <1>2 DEF TableTypes
<1> QED
  BY <1>5, <1>6, <1>10, <1>11, <1>12

\* The used slots, the children and the pairs that are not lost stay as they are.
Kept ==
  /\ \A sl \in Slot : InUse(sl)' <=> InUse(sl)
  /\ \A sl \in Slot : InUse(sl) => processes'[sl] = processes[sl]
  /\ process_last' = process_last

\* A failed process_spawn changes no used slot; F_SETOWN's failure loses a pair.
LEMMA SpawnFails ==
  ASSUME Table, NEW slot \in Slot, ~InUse(slot), spawn_fails(slot)
  PROVE  Table' /\ Kept
<1> USE DEF Table
<1> DEFINE d == Min(Pair \ pairs)
<1>1. /\ process_last' = process_last /\ forks' = forks
      /\ running' = running /\ zombies' = zombies
  BY DEF spawn_fails, child_vars
<1>2. CASE processes' = processes /\ pairs' = pairs /\ lost' = lost
  BY <1>1, <1>2 DEF Kept, InUse, TableTypes, Owned, PairsOwned
<1>3. CASE /\ Pair # pairs /\ processes' = [processes EXCEPT ![slot].channel = d]
           /\ \/ pairs' = pairs /\ lost' = lost
              \/ pairs' = pairs \cup {d} /\ lost' = lost \cup {d}
  <2>1. d \in Pair /\ d \notin pairs
    BY <1>3, FreshPair
  <2> HIDE DEF d
  <2>2. /\ processes' \in [Slot -> Process]
        /\ \A sl \in Slot : sl # slot => processes'[sl] = processes[sl]
        /\ processes'[slot].pid = processes[slot].pid
    <3>1. processes[slot] \in Process /\ d \in 0 .. MaxPairs
      BY <2>1, MasterAssumption DEF TableTypes, Pair, MasterAssumption
    <3>2. /\ [processes[slot] EXCEPT !.channel = d] \in Process
          /\ [processes[slot] EXCEPT !.channel = d].pid = processes[slot].pid
      BY <3>1 DEF Process
    <3>3. processes' = [processes EXCEPT ![slot] = [processes[slot] EXCEPT !.channel = d]]
      BY <1>3
    <3> QED
      BY <3>2, <3>3 DEF TableTypes
  <2>3. Kept
    BY <1>1, <2>2 DEF Kept, InUse
  <2>4. TableTypes'
    BY <1>1, <1>3, <2>1, <2>2 DEF TableTypes
  <2>5. Owned'
    BY <1>1, <2>3 DEF Kept, Owned
  <2>6. \A sl \in Slot : InUse(sl) => processes[sl].channel # d
    BY <2>1 DEF PairsOwned
  <2>7. PairsOwned'
    BY <1>3, <2>1, <2>3, <2>6 DEF Kept, PairsOwned
  <2> QED
    BY <2>3, <2>4, <2>5, <2>7
<1> QED
  BY <1>2, <1>3 DEF spawn_fails

\* process_start_workers
LEMMA StartInv ==
  ASSUME MpInv, process_start_workers
  PROVE  MpInv'
<1> USE DEF MpInv
<1>1. /\ phase = "start" /\ alive_flag' = alive_flag /\ clock' = clock /\ tv_sec' = tv_sec
      /\ slot_i' = slot_i /\ tv_sec \in Nat /\ TableTypes /\ alive_flag
  BY DEF process_start_workers, Where, Table
<1>2. auto_slot \in 0 .. process_last /\ ~InUse(auto_slot) /\ process_last \in Nat
  BY <1>1, AutoSlot DEF TableTypes
<1>3. CASE auto_slot < PROCESSES_MAX /\ spawn_ok(auto_slot) /\ phase' = phase
  <2>1. auto_slot \in Slot /\ auto_slot <= process_last
    BY <1>2, <1>3, MasterAssumption DEF Slot, MasterAssumption
  <2>2. Table' /\ process_last <= process_last'
    BY <1>1, <1>2, <1>3, <2>1, SpawnOk
  <2>3. Where'
    BY <1>1, <1>2, <1>3, <2>2 DEF Where, Table, TableTypes
  <2> QED
    BY <2>2, <2>3
<1>4. CASE auto_slot < PROCESSES_MAX /\ spawn_fails(auto_slot) /\ phase' = "failed"
  <2>1. auto_slot \in Slot
    BY <1>2, <1>4, MasterAssumption DEF Slot, MasterAssumption
  <2>2. Table' /\ Kept
    BY <1>2, <1>4, <2>1, SpawnFails
  <2>3. Where'
    BY <1>1, <1>4, <2>2 DEF Where, Kept
  <2> QED
    BY <2>2, <2>3
<1>5. CASE UNCHANGED <<table_vars, child_vars>> /\ phase' = "failed"
  BY <1>1, <1>5 DEF table_vars, child_vars, Table, TableTypes, Owned, PairsOwned, InUse, Where
<1> QED
  BY <1>3, <1>4, <1>5 DEF process_start_workers

\* The steps that touch neither the table nor the children.
LEMMA LoopInv ==
  ASSUME MpInv,
         \/ master_loop \/ time_update \/ inner_ends \/ reap_skip \/ reap_done
         \/ master_quits \/ process_notify_workers_backup \/ tick
         \/ \E p \in Pid : channel_handler(p)
         \/ \E flag \in {"QUIT", "BACKUP"} : process_set_doing(flag)
         \/ UNCHANGED mp_vars
  PROVE  MpInv'
<1> USE DEF MpInv
<1>1. UNCHANGED <<table_vars, child_vars>>
  BY DEF master_loop, time_update, inner_ends, reap_skip, reap_done, master_quits,
         process_notify_workers_backup, tick, channel_handler, process_set_doing, mp_vars
<1>2. Table' /\ (\A sl \in Slot : InUse(sl)' <=> InUse(sl)) /\ process_last' = process_last
  BY <1>1 DEF table_vars, child_vars, Table, TableTypes, Owned, PairsOwned, InUse
<1>3. CASE reap_skip
  <2>1. slot_i \in Slot /\ slot_i' = slot_i + 1 /\ process_last \in Nat
    BY <1>3, MasterAssumption DEF reap_skip, Where, Table, TableTypes, Slot, MasterAssumption
  <2>2. ~alive_flag' => ~alive_flag /\ ~InUse(slot_i)
    BY <1>3 DEF reap_skip
  <2>3. phase' = "reap" /\ phase = "reap" /\ tv_sec' = tv_sec /\ clock' = clock /\ slot_i < process_last
    BY <1>3 DEF reap_skip
  <2>4. \A sl \in Slot : sl < slot_i' => sl < slot_i \/ sl = slot_i
    BY <2>1 DEF Slot
  <2>5. slot_i' \in 0 .. process_last'
    BY <1>2, <2>1, <2>3 DEF Where
  <2> QED
    BY <1>2, <2>2, <2>3, <2>4, <2>5 DEF Where
<1>4. CASE reap_done
  <2>1. \A sl \in Slot : InUse(sl) => sl < slot_i
    BY <1>4 DEF reap_done, InUse
  <2> QED
    BY <1>2, <1>4, <2>1 DEF reap_done, Where
<1>5. CASE tick
  <2>1. clock' \in Nat /\ UNCHANGED <<table_vars, tv_sec, phase, slot_i, alive_flag>>
    BY <1>5 DEF tick, Where
  <2> QED
    BY <1>2, <2>1 DEF Where, InUse, table_vars
<1>6. CASE ~reap_skip /\ ~reap_done /\ ~tick
  <2>1. /\ tv_sec' \in {tv_sec, clock} /\ clock' = clock /\ slot_i' = slot_i
        /\ alive_flag' = alive_flag
        /\ \/ phase' = phase
           \/ phase = "start" /\ phase' = "outer"
           \/ phase \in {"inner", "outer"} /\ phase' \in {"inner", "outer"}
           \/ phase = "inner" /\ phase' = "ended" /\ ~alive_flag
    BY <1>6 DEF master_loop, time_update, inner_ends, master_quits,
       process_notify_workers_backup, channel_handler, process_set_doing, mp_vars
  <2>2. phase' = phase => (phase' = "respawn" => slot_i' < process_last' /\ ~InUse(slot_i)')
    BY <1>1, <2>1 DEF Where, InUse, table_vars
  <2> QED
    BY <1>2, <2>1, <2>2 DEF Where
<1> QED
  BY <1>3, <1>4, <1>5, <1>6

\* The exit of a worker turns a child that runs into one that waits for waitpid.
LEMMA ExitInv ==
  ASSUME MpInv, NEW p \in Pid, worker_exits(p)
  PROVE  MpInv'
<1>1. /\ UNCHANGED <<table_vars, forks, alive_flag, clock, tv_sec, phase, slot_i>>
      /\ p \in running /\ running' = running \ {p} /\ zombies' = zombies \cup {p}
  BY DEF worker_exits
<1>2. running' \cup zombies' = running \cup zombies
  BY <1>1
<1>3. TableTypes' /\ PairsOwned' /\ Where'
  BY <1>1 DEF MpInv, Table, TableTypes, PairsOwned, Where, InUse, table_vars
<1>4. Owned'
  BY <1>1, <1>2 DEF MpInv, Table, Owned, InUse, table_vars
<1> QED
  BY <1>3, <1>4 DEF MpInv, Table

\* process_get_status books the exit of each child it waited for on that child's slot.
LEMMA StatusInv ==
  ASSUME MpInv, process_get_status
  PROVE  MpInv'
<1> USE DEF MpInv, Table
<1> DEFINE Booked(sl) ==
             \/ InUse(sl) /\ processes[sl].pid \in zombies
             \/ sl = process_last /\ \E z \in zombies : \A t \in Slot :
                                       ~(InUse(t) /\ processes[t].pid = z)
<1>1. /\ zombies' = {} /\ running' = running /\ forks' = forks
      /\ process_last' = process_last /\ pairs' = pairs /\ lost' = lost
      /\ clock' = clock /\ tv_sec' = tv_sec /\ slot_i' = 0 /\ phase' = "reap"
      /\ processes' = [sl \in Slot |-> IF Booked(sl) THEN [processes[sl] EXCEPT !.ps = "EXITED"]
                                                   ELSE processes[sl]]
  BY DEF process_get_status
<1>2. \A sl \in Slot : InUse(sl) => (Booked(sl) <=> processes[sl].pid \in zombies)
  BY MasterAssumption DEF InUse, Slot, TableTypes, MasterAssumption
<1> HIDE DEF Booked
<1>3. \A sl \in Slot : /\ processes'[sl] \in Process
                      /\ processes'[sl].pid = processes[sl].pid
                      /\ processes'[sl].channel = processes[sl].channel
                      /\ processes'[sl].ps = IF Booked(sl) THEN "EXITED" ELSE processes[sl].ps
  <2> SUFFICES ASSUME NEW sl \in Slot
               PROVE  /\ processes'[sl] \in Process
                      /\ processes'[sl].pid = processes[sl].pid
                      /\ processes'[sl].channel = processes[sl].channel
                      /\ processes'[sl].ps = IF Booked(sl) THEN "EXITED" ELSE processes[sl].ps
    OBVIOUS
  <2>1. processes[sl] \in Process
    BY DEF TableTypes
  <2> QED
    BY <1>1, <2>1 DEF Process
<1>4. \A sl \in Slot : InUse(sl)' <=> InUse(sl)
  BY <1>1, <1>3 DEF InUse
<1>5. TableTypes'
  BY <1>1, <1>3 DEF TableTypes
<1>6. PairsOwned'
  BY <1>1, <1>3, <1>4 DEF PairsOwned
<1>7. Owned'
  <2>1. \A sl \in Slot : InUse(sl)' => processes'[sl].pid \in 1 .. forks'
    BY <1>1, <1>3, <1>4 DEF Owned
  <2>2. \A sl, t \in Slot : InUse(sl)' /\ InUse(t)' /\ processes'[sl].pid = processes'[t].pid => sl = t
    BY <1>3, <1>4 DEF Owned
  <2>3. \A p \in running' \cup zombies' : \E sl \in Slot : InUse(sl)' /\ processes'[sl].pid = p
    BY <1>1, <1>3, <1>4 DEF Owned
  <2>4. running \cap zombies = {}
    BY DEF TableTypes
  <2>5. \A sl \in Slot : InUse(sl)' =>
          \/ processes'[sl].ps = "RUNNING" /\ processes'[sl].pid \in running' \cup zombies'
          \/ processes'[sl].ps = "EXITED" /\ processes'[sl].pid \notin running' \cup zombies'
    BY <1>1, <1>2, <1>3, <1>4, <2>4 DEF Owned
  <2> QED
    BY <2>1, <2>2, <2>3, <2>5 DEF Owned
<1>8. Where'
  BY <1>1, MasterAssumption DEF Where, TableTypes, Slot, MasterAssumption
<1> QED
  BY <1>5, <1>6, <1>7, <1>8

\* Freeing a slot clears its pid and its channel.
LEMMA Cleared ==
  ASSUME NEW q \in Process
  PROVE  [q EXCEPT !.pid = 0, !.channel = 0] =
           [pid |-> 0, ps |-> q.ps, restart_gap |-> q.restart_gap, channel |-> 0]
<1> DEFINE r == [pid |-> 0, ps |-> q.ps, restart_gap |-> q.restart_gap, channel |-> q.channel]
<1>1. [q EXCEPT !.pid = 0] = r
  BY DEF Process
<1>2. [r EXCEPT !.channel = 0] =
        [pid |-> 0, ps |-> q.ps, restart_gap |-> q.restart_gap, channel |-> 0]
  OBVIOUS
<1>3. [q EXCEPT !.pid = 0, !.channel = 0] = [[q EXCEPT !.pid = 0] EXCEPT !.channel = 0]
  BY DEF Process
<1> QED
  BY <1>1, <1>2, <1>3

\* process_reap_workers frees the slot of a child that was waited for, and its pair.
LEMMA DetachInv ==
  ASSUME MpInv, reap_detach
  PROVE  MpInv'
<1> USE DEF MpInv, Table
<1> DEFINE p == processes[slot_i]
           none == [pid |-> 0, ps |-> p.ps, restart_gap |-> p.restart_gap, channel |-> 0]
<1>1. /\ slot_i \in Slot /\ slot_i < process_last /\ InUse(slot_i) /\ p.ps = "EXITED"
      /\ slot_i + 1 \in 0 .. process_last
  BY MasterAssumption DEF reap_detach, Where, TableTypes, Slot, MasterAssumption
<1>2. p \in Process /\ none \in Process
  <2>1. p \in Process
    BY <1>1 DEF TableTypes
  <2> QED
    BY <2>1, MasterAssumption DEF Process, MasterAssumption
<1>3. /\ UNCHANGED <<process_last, lost, running, zombies, forks, clock, tv_sec, alive_flag>>
      /\ pairs' = pairs \ {p.channel}
      /\ processes' = [processes EXCEPT ![slot_i] = [p EXCEPT !.pid = 0, !.channel = 0]]
      /\ phase = "reap"
      /\ \/ slot_i' = slot_i + 1 /\ phase' = "reap"
         \/ slot_i' = slot_i /\ phase' = "respawn"
  BY DEF reap_detach, child_vars
<1>4. processes' = [processes EXCEPT ![slot_i] = none]
  <2>1. [p EXCEPT !.pid = 0, !.channel = 0] = none
    BY <1>2, Cleared
  <2> QED
    BY <1>3, <2>1
<1>5. /\ processes'[slot_i] = none /\ none.pid = 0
      /\ \A sl \in Slot : sl # slot_i => processes'[sl] = processes[sl]
  BY <1>1, <1>4 DEF TableTypes
<1> HIDE DEF none
<1>6. \A sl \in Slot : InUse(sl)' <=> InUse(sl) /\ sl # slot_i
  <2>1. \A sl \in Slot : sl # slot_i => (InUse(sl)' <=> InUse(sl))
    BY <1>3, <1>5 DEF InUse
  <2>2. \A sl \in Slot : sl = slot_i => ~InUse(sl)'
    BY <1>5 DEF InUse
  <2> QED
    BY <2>1, <2>2
<1>7. TableTypes'
  BY <1>1, <1>2, <1>3, <1>4 DEF TableTypes
<1>8. p.pid \notin running \cup zombies
  BY <1>1 DEF Owned
<1>9. Owned'
  <2>1. \A q \in running' \cup zombies' : \E sl \in Slot : InUse(sl)' /\ processes'[sl].pid = q
    BY <1>3, <1>5, <1>6, <1>8 DEF Owned
  <2> QED
    BY <1>3, <1>5, <1>6, <2>1 DEF Owned
<1>10. PairsOwned'
  <2>1. p.channel \in Pair \ lost
    BY <1>1 DEF PairsOwned
  <2>2. \A sl \in Slot : InUse(sl) /\ processes[sl].channel = p.channel => sl = slot_i
    BY <1>1 DEF PairsOwned
  <2> HIDE DEF p
  <2>3. \A d \in Pair : d \in pairs' <=>
          d \in lost \/ \E sl \in Slot : InUse(sl) /\ sl # slot_i /\ processes[sl].channel = d
    BY <1>3, <2>1, <2>2 DEF PairsOwned, p
  <2> QED
    BY <1>3, <1>5, <1>6, <2>3 DEF PairsOwned
<1>11. Where'
  <2>1. \A sl \in Slot : sl < slot_i + 1 => sl < slot_i \/ sl = slot_i
    BY <1>1 DEF Slot
  <2>2. CASE slot_i' = slot_i + 1 /\ phase' = "reap"
    BY <1>1, <1>3, <1>6, <2>1, <2>2 DEF Where
  <2>3. CASE slot_i' = slot_i /\ phase' = "respawn"
    <3>1. slot_i' < process_last' /\ (~InUse(slot_i))'
      BY <1>1, <1>3, <1>5, <2>3 DEF InUse, none
    <3> QED
      BY <1>1, <1>3, <1>6, <2>3, <3>1 DEF Where
  <2> QED
    BY <1>3, <2>2, <2>3
<1> QED
  BY <1>7, <1>9, <1>10, <1>11

\* The respawn takes the slot that was just freed.
LEMMA RespawnInv ==
  ASSUME MpInv, respawn
  PROVE  MpInv'
<1> USE DEF MpInv
<1>1. /\ slot_i \in Slot /\ slot_i <= process_last /\ ~InUse(slot_i) /\ tv_sec \in Nat
      /\ slot_i + 1 \in 0 .. process_last
  BY MasterAssumption DEF respawn, Where, Table, TableTypes, Slot, MasterAssumption
<1>2. /\ clock' = clock /\ tv_sec' = tv_sec /\ slot_i' = slot_i + 1
      /\ phase = "respawn" /\ phase' = "reap"
  BY DEF respawn
<1>3. CASE spawn_ok(slot_i) /\ alive_flag' = TRUE
  <2>1. Table' /\ process_last <= process_last'
    BY <1>1, <1>3, SpawnOk
  <2>2. slot_i' \in 0 .. process_last'
    BY <1>1, <1>2, <2>1 DEF Table, TableTypes
  <2> QED
    BY <1>2, <1>3, <2>1, <2>2 DEF Where
<1>4. CASE spawn_fails(slot_i) /\ alive_flag' = alive_flag
  <2>1. Table' /\ Kept
    BY <1>1, <1>4, SpawnFails
  <2>2. \A sl \in Slot : sl < slot_i + 1 => sl < slot_i \/ sl = slot_i
    BY <1>1 DEF Slot
  <2> QED
    BY <1>1, <1>2, <1>4, <2>1, <2>2 DEF Where, Kept
<1> QED
  BY <1>3, <1>4 DEF respawn

\* The table is empty when the master begins.
LEMMA InitInv == MpInit => MpInv
<1> SUFFICES ASSUME MpInit PROVE MpInv
  OBVIOUS
<1>1. processes \in [Slot -> Process]
  BY MasterAssumption DEF MpInit, Process, MasterAssumption
<1>2. \A sl \in Slot : ~InUse(sl)
  BY DEF MpInit, InUse, Slot
<1>3. Table
  BY <1>1, <1>2, MasterAssumption
     DEF MpInit, Table, TableTypes, Owned, PairsOwned, MasterAssumption
<1>4. Where
  BY DEF MpInit, Where
<1> QED
  BY <1>3, <1>4 DEF MpInv

\* Every step keeps the invariant.
LEMMA StepInv == MpInv /\ [MpNext]_mp_vars => MpInv'
<1> SUFFICES ASSUME MpInv, [MpNext]_mp_vars PROVE MpInv'
  OBVIOUS
<1>1. CASE MasterStep
  BY <1>1, StartInv, LoopInv, StatusInv, DetachInv, RespawnInv DEF MasterStep
<1>2. CASE \E p \in Pid : channel_handler(p) \/ worker_exits(p)
  BY <1>2, LoopInv, ExitInv
<1>3. CASE (\E flag \in {"QUIT", "BACKUP"} : process_set_doing(flag)) \/ tick
  BY <1>3, LoopInv
<1>4. CASE UNCHANGED mp_vars
  BY <1>4, LoopInv
<1> QED
  BY <1>1, <1>2, <1>3, <1>4 DEF MpNext

\* In every table, whatever of process_spawn fails and in whatever order workers exit, are
\* waited for and are respawned, each child has one slot and one pair, and the master
\* returns from its loop only when no child is left.
THEOREM MasterKnowsItsChildren == MpSpec => []ChildrenAccounted
<1>1. MpInv => TableSound
  <2> SUFFICES ASSUME MpInv PROVE TableSound
    OBVIOUS
  <2> USE DEF MpInv, Table
  <2>1. ASSUME NEW p \in running \cup zombies
        PROVE  Cardinality({sl \in Slot : InUse(sl) /\ processes[sl].pid = p}) = 1
    <3>1. PICK sl \in Slot : InUse(sl) /\ processes[sl].pid = p
      BY DEF Owned
    <3>2. {t \in Slot : InUse(t) /\ processes[t].pid = p} = {sl}
      BY <3>1 DEF Owned
    <3> QED
      BY <3>2, FS_Singleton
  <2>2. pairs = lost \cup {processes[sl].channel : sl \in {t \in Slot : InUse(t)}}
    BY DEF TableTypes, PairsOwned
  <2> QED
    BY <2>1, <2>2 DEF TableSound, Owned, PairsOwned
<1>2. MpInv => MasterOutlives
  <2> SUFFICES ASSUME MpInv, phase = "ended" PROVE running = {} /\ zombies = {}
    BY DEF MasterOutlives
  <2>1. ~alive_flag
    BY DEF MpInv, Where
  <2> QED
    BY <2>1 DEF MpInv, Table, Where, Owned
<1>3. MpInv => ChildrenAccounted
  BY <1>1, <1>2 DEF ChildrenAccounted
<1> QED
  BY <1>3, InitInv, StepInv, PTL DEF MpSpec

-----------------------------------------------------------------------------
(* The respawns of a quitting master.  Each worker it respawns has a slot   *)
(* of its own whose restart_gap is the cached time, which stands still from *)
(* then on, so that no such slot comes to be respawned into again.          *)

RefilledBy(f) ==
  /\ \A p, q \in quitting : f[p] = f[q] => p = q
  /\ \A p \in quitting : processes[f[p]].restart_gap = tv_sec
  /\ phase = "respawn" => \A p \in quitting : f[p] # slot_i

QuitInv ==
  /\ quitting \subseteq 1 .. forks
  /\ "QUIT" \in process_doing => phase # "start"
  /\ quitting # {} =>
       "QUIT" \in process_doing /\ phase \in {"inner", "reap", "respawn", "ended"}
  /\ \E f \in [quitting -> 0 .. process_last - 1] : RefilledBy(f)

\* With no worker respawned yet there is nothing to keep.
LEMMA NoneRefilled ==
  ASSUME quitting' = {}
  PROVE  (\E f \in [quitting -> 0 .. process_last - 1] : RefilledBy(f))'
<1>0. PICK f : f = [p \in quitting' |-> 0]
  OBVIOUS
<1>1. f \in [quitting' -> 0 .. process_last' - 1]
  BY <1>0
<1>2. RefilledBy(f)'
  BY DEF RefilledBy
<1> QED
  BY <1>1, <1>2

\* A step that forks nothing, leaves the cached time and the start times of the slots
\* alone and does not turn to a respawn keeps the slots refilled.
LEMMA RefilledKept ==
  ASSUME \E f \in [quitting -> 0 .. process_last - 1] : RefilledBy(f),
         quitting' = quitting, process_last' = process_last, tv_sec' = tv_sec,
         \A sl \in 0 .. process_last - 1 :
           processes'[sl].restart_gap = processes[sl].restart_gap,
         phase' = "respawn" =>
           \/ phase = "respawn" /\ slot_i' = slot_i
           \/ processes[slot_i'].restart_gap # tv_sec
  PROVE  (\E f \in [quitting -> 0 .. process_last - 1] : RefilledBy(f))'
<1>1. PICK f \in [quitting -> 0 .. process_last - 1] : RefilledBy(f)
  OBVIOUS
<1>2. RefilledBy(f)'
  BY <1>1 DEF RefilledBy
<1> QED
  BY <1>1, <1>2

\* Freeing slots, booking exits and failing to spawn leave the start times alone.
LEMMA GapsKept ==
  ASSUME MpInv,
         process_get_status \/ reap_detach \/ \E slot \in Slot : spawn_fails(slot)
  PROVE  \A sl \in Slot : processes'[sl].restart_gap = processes[sl].restart_gap
<1> SUFFICES ASSUME NEW sl \in Slot
             PROVE  processes'[sl].restart_gap = processes[sl].restart_gap
  OBVIOUS
<1>1. processes \in [Slot -> Process] /\ processes[sl] \in Process
  BY DEF MpInv, Table, TableTypes
<1>2. CASE process_get_status
  <2>1. \/ processes'[sl] = processes[sl]
        \/ processes'[sl] = [processes[sl] EXCEPT !.ps = "EXITED"]
    BY <1>2 DEF process_get_status
  <2> QED
    BY <1>1, <2>1 DEF Process
<1>3. CASE reap_detach
  <2>1. processes' = [processes EXCEPT ![slot_i] =
                        [processes[slot_i] EXCEPT !.pid = 0, !.channel = 0]]
    BY <1>3 DEF reap_detach
  <2>2. CASE sl = slot_i
    <3>1. processes'[sl] = [processes[sl] EXCEPT !.pid = 0, !.channel = 0]
      BY <1>1, <2>1, <2>2
    <3> QED
      BY <1>1, <3>1, Cleared
  <2>3. CASE sl # slot_i
    BY <1>1, <2>1, <2>3
  <2> QED
    BY <2>2, <2>3
<1>4. ASSUME NEW slot \in Slot, spawn_fails(slot)
      PROVE  processes'[sl].restart_gap = processes[sl].restart_gap
  <2>1. \/ processes' = processes
        \/ \E d : processes' = [processes EXCEPT ![slot] =
                                 [processes[slot] EXCEPT !.channel = d]]
    BY <1>4 DEF spawn_fails
  <2> QED
    BY <1>1, <2>1 DEF Process
<1> QED
  BY <1>2, <1>3, <1>4

\* A worker that is respawned while the master is to quit gets a slot that no such worker
\* has had.
LEMMA RespawnQuit ==
  ASSUME MpInv, QuitInv, respawn
  PROVE  QuitInv'
<1> USE DEF QuitInv
<1>1. /\ slot_i \in 0 .. process_last - 1 /\ slot_i \in Slot /\ forks \in Nat
      /\ process_last \in Nat /\ processes \in [Slot -> Process]
      /\ 0 .. process_last - 1 \subseteq Slot
  BY MasterAssumption DEF MpInv, Where, Table, TableTypes, respawn, Slot, MasterAssumption
<1>2. /\ phase = "respawn" /\ phase' = "reap" /\ tv_sec' = tv_sec
      /\ process_doing' = process_doing
  BY DEF respawn
<1>3. CASE spawn_ok(slot_i)
  <2> DEFINE new == [pid |-> forks + 1, ps |-> "RUNNING", restart_gap |-> tv_sec,
                     channel |-> Min(Pair \ pairs)]
  <2>1. /\ processes' = [processes EXCEPT ![slot_i] = new] /\ new.restart_gap = tv_sec
        /\ forks' = forks + 1 /\ process_last' = process_last
        /\ quitting' = IF "QUIT" \in process_doing THEN quitting \cup {forks + 1} ELSE quitting
    BY <1>1, <1>3 DEF spawn_ok
  <2> HIDE DEF new
  <2>2. quitting' \subseteq 1 .. forks'
    BY <1>1, <2>1
  <2>3. CASE "QUIT" \notin process_doing
    <3>1. quitting' = {}
      BY <2>1, <2>3
    <3> QED
      BY <1>2, <2>3, <3>1, NoneRefilled
  <2>4. CASE "QUIT" \in process_doing
    <3>1. PICK f \in [quitting -> 0 .. process_last - 1] : RefilledBy(f)
      OBVIOUS
    <3>0. PICK g : g = [p \in quitting' |-> IF p = forks + 1 THEN slot_i ELSE f[p]]
      OBVIOUS
    <3>2. forks + 1 \notin quitting /\ quitting' = quitting \cup {forks + 1}
      BY <1>1, <2>1, <2>4
    <3>3. g \in [quitting' -> 0 .. process_last' - 1]
      BY <1>1, <2>1, <3>0, <3>1, <3>2
    <3>4. g[forks + 1] = slot_i /\ \A p \in quitting : g[p] = f[p]
      BY <3>0, <3>2
    <3>5. \A p \in quitting : f[p] # slot_i /\ f[p] \in 0 .. process_last - 1
      BY <1>2, <3>1 DEF RefilledBy
    <3>6. \A p, q \in quitting' : g[p] = g[q] => p = q
      BY <3>1, <3>2, <3>4, <3>5 DEF RefilledBy
    <3>7. processes'[slot_i].restart_gap = tv_sec
      BY <1>1, <2>1
    <3>8. \A p \in quitting : processes'[f[p]].restart_gap = tv_sec
      BY <1>1, <2>1, <3>1, <3>5 DEF RefilledBy
    <3>9. \A p \in quitting' : processes'[g[p]].restart_gap = tv_sec
      BY <3>2, <3>4, <3>7, <3>8
    <3>10. RefilledBy(g)'
      BY <1>2, <3>6, <3>9 DEF RefilledBy
    <3> QED
      BY <1>2, <2>2, <2>4, <3>3, <3>10
  <2> QED
    BY <2>3, <2>4
<1>4. CASE spawn_fails(slot_i)
  <2>1. quitting' = quitting /\ forks' = forks /\ process_last' = process_last
    BY <1>4 DEF spawn_fails, child_vars
  <2>2. \A sl \in Slot : processes'[sl].restart_gap = processes[sl].restart_gap
    BY <1>1, <1>4, GapsKept
  <2>3. (\E f \in [quitting -> 0 .. process_last - 1] : RefilledBy(f))'
    BY <1>1, <1>2, <2>1, <2>2, RefilledKept
  <2> QED
    BY <1>2, <2>1, <2>3
<1> QED
  BY <1>3, <1>4 DEF respawn

\* Every step keeps the refilled slots apart: until the first such worker the cached time
\* may move, after it the loop never comes to time_update again.
LEMMA QuitStep == MpInv /\ QuitInv /\ [MpNext]_mp_vars => QuitInv'
<1> SUFFICES ASSUME MpInv, QuitInv, [MpNext]_mp_vars PROVE QuitInv'
  OBVIOUS
<1> USE DEF QuitInv
<1>0. /\ forks \in Nat /\ process_last \in Nat /\ slot_i \in 0 .. process_last
      /\ processes \in [Slot -> Process] /\ 0 .. process_last - 1 \subseteq Slot
  BY MasterAssumption DEF MpInv, Where, Table, TableTypes, Slot, MasterAssumption
<1>1. CASE process_start_workers
  <2>1. "QUIT" \notin process_doing /\ quitting = {} /\ process_doing' = process_doing
    BY <1>1 DEF process_start_workers
  <2>2. quitting' = {}
    BY <1>1, <2>1 DEF process_start_workers, spawn_ok, spawn_fails, child_vars
  <2> QED
    BY <2>1, <2>2, NoneRefilled
<1>2. CASE master_loop \/ time_update \/ inner_ends
  <2>1. quitting = {} /\ quitting' = quitting
    BY <1>2 DEF master_loop, time_update, inner_ends, child_vars
  <2>2. phase' # "start"
    BY <1>2 DEF master_loop, time_update, inner_ends
  <2> QED
    BY <2>1, <2>2, NoneRefilled
<1>3. CASE process_get_status
  <2>1. /\ UNCHANGED <<quitting, forks, process_last, tv_sec>> /\ phase' = "reap"
        /\ phase = "inner" /\ process_doing' = process_doing \ {"REAP"}
    BY <1>3 DEF process_get_status
  <2>2. (\E f \in [quitting -> 0 .. process_last - 1] : RefilledBy(f))'
    BY <1>0, <1>3, <2>1, GapsKept, RefilledKept
  <2> QED
    BY <2>1, <2>2
<1>4. CASE reap_detach
  <2>1. /\ UNCHANGED <<quitting, forks, process_last, tv_sec, process_doing>>
        /\ phase = "reap" /\ slot_i \in 0 .. process_last - 1
        /\ phase' \in {"reap", "respawn"}
    BY <1>0, <1>4 DEF reap_detach, child_vars
  <2>2. tv_sec \in Nat /\ processes[slot_i].restart_gap \in Nat
    BY <1>0, <2>1 DEF MpInv, Where, Process
  <2>3. phase' = "respawn" =>
          slot_i' = slot_i /\ processes[slot_i].restart_gap # tv_sec
    BY <1>4, <2>1, <2>2, MasterAssumption DEF reap_detach, MasterAssumption
  <2>4. (\E f \in [quitting -> 0 .. process_last - 1] : RefilledBy(f))'
    BY <1>0, <1>4, <2>1, <2>3, GapsKept, RefilledKept
  <2> QED
    BY <2>1, <2>4
<1>5. CASE respawn
  BY <1>5, RespawnQuit
<1>6. CASE reap_skip \/ reap_done \/ master_quits \/ process_notify_workers_backup
  <2>1. /\ UNCHANGED <<quitting, forks, process_last, tv_sec, processes>>
        /\ process_doing' = process_doing \/ process_doing' = process_doing \ {"BACKUP"}
        /\ phase \in {"reap", "inner"} /\ phase' \in {"reap", "inner", "ended"}
    BY <1>6 DEF reap_skip, reap_done, master_quits, process_notify_workers_backup,
                table_vars, child_vars
  <2>2. (\E f \in [quitting -> 0 .. process_last - 1] : RefilledBy(f))'
    BY <2>1, RefilledKept
  <2> QED
    BY <2>1, <2>2
<1>7. CASE \/ \E p \in Pid : channel_handler(p) \/ worker_exits(p)
           \/ \E flag \in {"QUIT", "BACKUP"} : process_set_doing(flag)
           \/ tick \/ UNCHANGED mp_vars
  <2>1. /\ UNCHANGED <<quitting, forks, process_last, tv_sec, processes, phase, slot_i>>
        /\ process_doing \subseteq process_doing'
        /\ "QUIT" \in process_doing' => "QUIT" \in process_doing \/ phase # "start"
    BY <1>7 DEF channel_handler, worker_exits, process_set_doing, tick, mp_vars,
                table_vars, child_vars
  <2>2. (\E f \in [quitting -> 0 .. process_last - 1] : RefilledBy(f))'
    BY <2>1, RefilledKept
  <2> QED
    BY <2>1, <2>2
<1> QED
  BY <1>1, <1>2, <1>3, <1>4, <1>5, <1>6, <1>7 DEF MpNext, MasterStep

\* Nobody is quitting at first.
LEMMA QuitStart == MpInit => QuitInv
<1> SUFFICES ASSUME MpInit PROVE QuitInv
  OBVIOUS
<1>1. quitting = {} /\ process_doing = {}
  BY DEF MpInit
<1>2. PICK f : f = [p \in quitting |-> 0]
  OBVIOUS
<1>3. f \in [quitting -> 0 .. process_last - 1] /\ RefilledBy(f)
  BY <1>1, <1>2 DEF RefilledBy
<1> QED
  BY <1>1, <1>3 DEF QuitInv

\* For any table and any times: process_reap_workers, which respawns workers also when the
\* master is to quit, fills each slot once more at most.
THEOREM QuitRefillsOnce == MpSpec => []QuitRespawnsOnce
<1>1. MpInv /\ QuitInv => QuitRespawnsOnce
  <2> SUFFICES ASSUME MpInv, QuitInv PROVE QuitRespawnsOnce
    OBVIOUS
  <2>1. process_last \in Nat
    BY DEF MpInv, Table, TableTypes
  <2>2. PICK f \in [quitting -> 0 .. process_last - 1] : RefilledBy(f)
    BY DEF QuitInv
  <2>3. f \in Injection(quitting, 0 .. process_last - 1)
    BY <2>2 DEF RefilledBy, Injection, IsInjective
  <2>4. IsFiniteSet(0 .. process_last - 1) /\ Cardinality(0 .. process_last - 1) = process_last
    BY <2>1, FS_Interval
  <2>5. Cardinality(quitting) <= Cardinality(0 .. process_last - 1)
    BY <2>3, <2>4, FS_Injection
  <2> QED
    BY <2>4, <2>5 DEF QuitRespawnsOnce
<1> QED
  BY <1>1, InitInv, StepInv, QuitStart, QuitStep, PTL DEF MpSpec

-----------------------------------------------------------------------------
Types ==
  /\ n \in 1 .. N /\ i \in 1 .. n + 1
  /\ fd \in [Listener -> 0 .. N + 1]
  /\ sockets \in SUBSET Descriptor
  /\ s \in 0 .. N + 1

\* A socket is at hand only between socket() and its outcome, for an address without one.
AtHand ==
  /\ s # 0 <=> pc = "socket"
  /\ pc = "socket" => i <= n /\ fd[i] = 0

\* In a round without a failure the addresses that were passed have their sockets.
Passed ==
  /\ pc \in {"open", "socket"} /\ ~failed => \A l \in 1 .. i - 1 : fd[l] # 0
  /\ AllOpenOnSuccess

ListeningInv == Types /\ AtHand /\ Passed /\ NoLeakedSocket

\* Nothing is open and nothing passed at first.
LEMMA ListeningInit == Init => ListeningInv
<1> SUFFICES ASSUME Init PROVE ListeningInv
  OBVIOUS
<1> USE ListeningAssumption DEF ListeningAssumption, Init, Listener
<1>1. Types
  BY DEF Types, Descriptor
<1>2. AtHand /\ Passed
  BY <1>1 DEF AtHand, Passed, AllOpenOnSuccess, Types
<1>3. NoLeakedSocket
  BY DEF NoLeakedSocket
<1> QED
  BY <1>1, <1>2, <1>3 DEF ListeningInv

\* The rounds of conn_listening_open and the registrations keep the invariant.
LEMMA ListeningStep == ListeningInv /\ [Next]_vars => ListeningInv'
<1> SUFFICES ASSUME ListeningInv, [Next]_vars PROVE ListeningInv'
  OBVIOUS
<1> USE ListeningAssumption DEF ListeningAssumption, ListeningInv, Types, AtHand, Passed, AllOpenOnSuccess,
        NoLeakedSocket, Listener, Descriptor
<1>1. CASE open_skip
  BY <1>1 DEF open_skip
<1>2. CASE open_socket
  BY <1>2 DEF open_socket
<1>3. CASE open_error
  BY <1>3 DEF open_error
<1>4. CASE open_in_use
  BY <1>4 DEF open_in_use
<1>5. CASE open_listen
  BY <1>5 DEF open_listen
<1>6. CASE open_round
  <2>1. CASE ~failed
    <3>1. pc' = "add" /\ i > n
      BY <1>6, <2>1 DEF open_round
    <3> QED
      BY <1>6, <2>1, <3>1 DEF open_round
  <2>2. CASE failed
    <3>1. pc' \in {"open", "error"}
      BY <1>6, <2>2 DEF open_round
    <3> QED
      BY <1>6, <2>2, <3>1 DEF open_round
  <2> QED
    BY <2>1, <2>2
<1>7. CASE conn_listening_add_event
  BY <1>7 DEF conn_listening_add_event
<1>8. CASE add_done
  BY <1>8 DEF add_done
<1>9. CASE UNCHANGED vars
  BY <1>9 DEF vars
<1> QED
  BY <1>1, <1>2, <1>3, <1>4, <1>5, <1>6, <1>7, <1>8, <1>9 DEF Next

\* However its system calls fail and its rounds go, conn_listening_open keeps exactly the
\* sockets of the table open, and succeeds only with a socket for every address.
THEOREM SocketsAccounted == Spec => []SocketsSound
<1>1. ListeningInv => SocketsSound
  BY DEF ListeningInv, Passed, SocketsSound
<1> QED
  BY <1>1, ListeningInit, ListeningStep, PTL DEF Spec

-----------------------------------------------------------------------------
(* The composition.                                                         *)

\* Once process_start_workers has been called every address has its socket, and
\* conn_listening_open, which is behind, cannot touch them any more.
Opened ==
  /\ starts \in Nat /\ (forks > 0 \/ phase # "start" => starts > 0)
  /\ starts > 0 => pc \in {"add", "ok", "error"} /\ \A l \in 1 .. n : fd[l] # 0

StartupInv == ListeningInv /\ MpInv /\ QuitInv /\ Opened

\* Both parts begin in their initial states.
LEMMA StartupStart == StartupInit => StartupInv
<1> SUFFICES ASSUME StartupInit PROVE StartupInv
  OBVIOUS
<1>1. ListeningInv
  BY ListeningInit DEF StartupInit
<1>2. MpInv /\ QuitInv
  BY InitInv, QuitStart DEF StartupInit
<1>3. Opened
  BY DEF StartupInit, MpInit, Opened
<1> QED
  BY <1>1, <1>2, <1>3 DEF StartupInv

\* Nothing is forked and the loop is not entered before process_start_workers.
LEMMA StartsCounted ==
  ASSUME starts \in Nat, forks > 0 \/ phase # "start" => starts > 0, [MpNext]_mp_vars
  PROVE  /\ starts' \in Nat /\ starts <= starts'
         /\ forks' > 0 \/ phase' # "start" => starts' > 0
<1>1. CASE process_start_workers
  BY <1>1 DEF process_start_workers
<1>2. CASE respawn
  BY <1>2 DEF respawn
<1>3. CASE ~process_start_workers /\ ~respawn
  <2>1. starts' = starts /\ forks' = forks
    BY <1>3 DEF MpNext, MasterStep, master_loop, time_update, inner_ends,
       process_get_status, reap_skip, reap_detach, reap_done, master_quits,
       process_notify_workers_backup, channel_handler, worker_exits, process_set_doing,
       tick, mp_vars, child_vars
  <2>2. phase' # "start" => phase # "start" \/ starts > 0
    BY <1>3 DEF MpNext, MasterStep, master_loop, time_update, inner_ends,
       process_get_status, reap_skip, reap_detach, reap_done, master_quits,
       process_notify_workers_backup, channel_handler, worker_exits, process_set_doing,
       tick, mp_vars
  <2> QED
    BY <2>1, <2>2
<1> QED
  BY <1>1, <1>2, <1>3

\* A step is one of the listening part, which leaves the master alone, or one of the
\* master, which leaves the sockets alone.
LEMMA StartupStep == StartupInv /\ [StartupNext]_startup_vars => StartupInv'
<1> SUFFICES ASSUME StartupInv, [StartupNext]_startup_vars PROVE StartupInv'
  OBVIOUS
<1> USE DEF StartupInv
<1>1. [Next]_vars /\ [MpNext]_mp_vars
  BY DEF StartupNext, conn_listening_init, process_master_cycle, cli_thread, startup_vars, Next
<1>2. ListeningInv' /\ MpInv' /\ QuitInv'
  BY <1>1, ListeningStep, StepInv, QuitStep
<1>3. CASE conn_listening_init \/ cli_thread
  <2>1. starts' = starts /\ forks' = forks /\ phase' = phase
    BY <1>3 DEF conn_listening_init, cli_thread, mp_vars, child_vars
  <2>2. starts > 0 => ~conn_listening_init
    BY DEF Opened, conn_listening_init, open_skip, open_socket, open_error, open_in_use,
           open_listen, open_round
  <2>3. cli_thread => /\ fd' = fd /\ n' = n
                      /\ pc \in {"add", "ok", "error"} => pc' \in {"add", "ok", "error"}
    BY DEF cli_thread, conn_listening_add_event, add_done
  <2> QED
    BY <1>2, <1>3, <2>1, <2>2, <2>3 DEF Opened
<1>4. CASE process_master_cycle
  <2>1. fd' = fd /\ n' = n /\ pc' = pc /\ (starts = 0 => pc = "add")
    BY <1>4 DEF process_master_cycle, vars
  <2>2. pc = "add" => \A l \in 1 .. n : fd[l] # 0
    BY DEF ListeningInv, Passed, AllOpenOnSuccess
  <2>3. /\ starts' \in Nat /\ starts <= starts'
        /\ forks' > 0 \/ phase' # "start" => starts' > 0
    BY <1>1, StartsCounted DEF Opened
  <2>4. starts' > 0 => starts = 0 \/ starts > 0
    BY DEF Opened
  <2> QED
    BY <1>2, <2>1, <2>2, <2>3, <2>4 DEF Opened
<1>5. CASE UNCHANGED startup_vars
  BY <1>2, <1>5 DEF startup_vars, vars, mp_vars, child_vars, Opened
<1> QED
  BY <1>3, <1>4, <1>5 DEF StartupNext

\* The invariant of the whole holds always.
LEMMA StartupAlways == StartupSpec => []StartupInv
  BY StartupStart, StartupStep, PTL DEF StartupSpec

\* Also while the master and the cli threads go on, conn_listening_open has lost no
\* descriptor and has not reported a success it did not have.
THEOREM SocketsAccountedThroughout == StartupSpec => []SocketsSound
<1>1. StartupInv => SocketsSound
  BY DEF StartupInv, ListeningInv, Passed, SocketsSound
<1> QED
  BY <1>1, StartupAlways, PTL

\* Whatever fails and is retried, a worker is forked only when every address has its
\* socket, and the sockets are still open whenever a worker is respawned.
THEOREM WorkersInheritAll == StartupSpec => []ListenersFirst
<1>1. StartupInv => ListenersFirst
  <2> SUFFICES ASSUME StartupInv, forks > 0, NEW l \in 1 .. n PROVE fd[l] \in sockets
    BY DEF ListenersFirst
  <2>1. fd[l] # 0 /\ l \in Listener
    BY ListeningAssumption
       DEF StartupInv, Opened, ListeningInv, Types, Listener, ListeningAssumption
  <2> QED
    BY <2>1 DEF StartupInv, ListeningInv, NoLeakedSocket
<1> QED
  BY <1>1, StartupAlways, PTL

\* What the master keeps of its children, and how often it respawns them when it is to
\* quit, is the same with the listening sockets opened before and used beside it.
THEOREM MasterSoundThroughout == StartupSpec => [](ChildrenAccounted /\ QuitRespawnsOnce)
<1>1. StartupInit => MpInit
  BY DEF StartupInit
<1>2. [StartupNext]_startup_vars => [MpNext]_mp_vars
  BY DEF StartupNext, conn_listening_init, process_master_cycle, cli_thread, startup_vars
<1>3. StartupSpec => MpSpec
  BY <1>1, <1>2, PTL DEF StartupSpec, MpSpec
<1> QED
  BY <1>3, MasterKnowsItsChildren, QuitRefillsOnce, PTL
=============================================================================
