---------------------------- MODULE MasterStartup ----------------------------
(***************************************************************************)
(* process_master_cycle as a whole: conn_listening_init opens the          *)
(* listening sockets (module Listening), then process_start_workers forks  *)
(* workers, which inherit them (module MasterProcess).  The cli thread of  *)
(* a worker puts the sockets into its epoll while the master goes on.      *)
(***************************************************************************)
EXTENDS Listening, MasterProcess

startup_vars == <<vars, mp_vars>>

StartupInit == Init /\ MpInit

conn_listening_init ==
  /\ \/ open_skip \/ open_socket \/ open_error \/ open_in_use \/ open_listen \/ open_round
  /\ UNCHANGED mp_vars

\* Mutant of process_master_cycle: the result of conn_listening_init is not looked at.
process_master_cycle_blind ==
  /\ starts = 0 => pc \in {"add", "error"}
  /\ MpNext
  /\ UNCHANGED vars

\* The master returns when the sockets cannot be opened.
process_master_cycle ==
  /\ starts = 0 => pc = "add"
  /\ MpNext
  /\ UNCHANGED vars

cli_thread ==
  /\ running # {}
  /\ conn_listening_add_event \/ add_done
  /\ UNCHANGED mp_vars

StartupNext == conn_listening_init \/ process_master_cycle \/ cli_thread

StartupSpec == StartupInit /\ [][StartupNext]_startup_vars /\ MpFairness

-----------------------------------------------------------------------------
\* Whatever failed and was retried on the way, a worker is forked only when every address
\* has its socket.
ListenersFirst == forks > 0 => \A l \in 1 .. n : fd[l] \in sockets
=============================================================================
