------------------------------ MODULE Listening ------------------------------
(***************************************************************************)
(* The listening sockets: conn_listening_open, which the master process    *)
(* calls for the addresses of bind_for_cli, and conn_listening_add_event,  *)
(* with which the cli thread puts them into its epoll                      *)
(* (core/dfs_conn_listen.cpp).                                             *)
(*                                                                         *)
(* A descriptor is a number that is not in use; every system call may      *)
(* fail, and bind may fail with EADDRINUSE, after which the addresses that *)
(* are still without a socket are tried again, Tries times in all.         *)
(***************************************************************************)
EXTENDS Integers

CONSTANTS
  N,        \* bound on the addresses of bind_for_cli
  Tries     \* 5

ASSUME ListeningAssumption == N \in Nat \ {0} /\ Tries \in Nat \ {0}

VARIABLES
  n,             \* listening->nelts
  fd,            \* ls[i].fd, 0 for NGX_INVALID_FILE
  sockets,       \* external: descriptors that are open
  s,             \* the socket at hand, 0 for none
  i, tries, failed,
  conn_fd,       \* fd of ls[i].connection, 0 while there is none
  epoll,         \* external: descriptors in the epoll
  pc             \* open, socket, add, ok, error

vars == <<n, fd, sockets, s, i, tries, failed, conn_fd, epoll, pc>>

Listener == 1 .. N
Descriptor == 1 .. N + 1

Init ==
  /\ n \in 1 .. N
  /\ fd = [l \in Listener |-> 0]
  /\ sockets = {} /\ s = 0
  /\ i = 1 /\ tries = Tries /\ failed = FALSE
  /\ conn_fd = [l \in Listener |-> 0] /\ epoll = {}
  /\ pc = "open"

\* ls[i].fd # NGX_INVALID_FILE: opened in an earlier try.
open_skip ==
  /\ pc = "open" /\ i <= n /\ fd[i] # 0
  /\ i' = i + 1
  /\ UNCHANGED <<n, fd, sockets, s, tries, failed, conn_fd, epoll, pc>>

\* socket(), which takes the lowest free number, or its failure
open_socket ==
  /\ pc = "open" /\ i <= n /\ fd[i] = 0
  /\ \/ /\ \E d \in Descriptor \ sockets :
             /\ \A e \in Descriptor \ sockets : d <= e
             /\ s' = d /\ sockets' = sockets \cup {d}
        /\ pc' = "socket"
     \/ /\ pc' = "error"
        /\ UNCHANGED <<sockets, s>>
  /\ UNCHANGED <<n, fd, i, tries, failed, conn_fd, epoll>>

\* setsockopt, nonblocking or listen fails: the label error.  bind fails but not
\* with EADDRINUSE: the same.
open_error ==
  /\ pc = "socket"
  /\ sockets' = sockets \ {s} /\ s' = 0
  /\ pc' = "error"
  /\ UNCHANGED <<n, fd, i, tries, failed, conn_fd, epoll>>

\* bind fails with EADDRINUSE.
open_in_use ==
  /\ pc = "socket"
  /\ sockets' = sockets \ {s} /\ s' = 0
  /\ failed' = TRUE /\ i' = i + 1
  /\ pc' = "open"
  /\ UNCHANGED <<n, fd, tries, conn_fd, epoll>>

\* bind and listen succeed.
open_listen ==
  /\ pc = "socket"
  /\ fd' = [fd EXCEPT ![i] = s] /\ s' = 0
  /\ i' = i + 1
  /\ pc' = "open"
  /\ UNCHANGED <<n, sockets, tries, failed, conn_fd, epoll>>

\* Mutant of open_round: what failed before counts no more.
open_round_forgets ==
  /\ pc = "open" /\ i > n
  /\ tries' = IF failed THEN tries - 1 ELSE tries
  /\ pc' = IF ~failed \/ tries' = 0 THEN "add" ELSE "open"
  /\ i' = 1 /\ failed' = FALSE
  /\ UNCHANGED <<n, fd, sockets, s, conn_fd, epoll>>

\* A round over all addresses is done: break, or wait and try again, or give up.
open_round ==
  /\ pc = "open" /\ i > n
  /\ tries' = IF failed THEN tries - 1 ELSE tries
  /\ pc' = CASE ~failed -> "add"
             [] failed /\ tries' > 0 -> "open"
             [] OTHER -> "error"
  /\ i' = 1 /\ failed' = FALSE
  /\ UNCHANGED <<n, fd, sockets, s, conn_fd, epoll>>

\* conn_listening_add_event: a connection for ls[i] from conn_get_from_mem(ls->fd)
\* (ls points to the first element), and epoll_add_event, which fails for a
\* descriptor that is in the epoll already, as epoll_ctl does.
conn_listening_add_event ==
  /\ pc = "add" /\ i <= n
  /\ \/ /\ conn_fd' = [conn_fd EXCEPT ![i] = fd[1]]
        /\ IF fd[1] \in epoll
           THEN pc' = "error" /\ UNCHANGED <<i, epoll>>
           ELSE \/ epoll' = epoll \cup {fd[1]} /\ i' = i + 1 /\ UNCHANGED pc
                \/ pc' = "error" /\ UNCHANGED <<i, epoll>>
     \/ /\ pc' = "error"
        /\ UNCHANGED <<conn_fd, i, epoll>>
  /\ UNCHANGED <<n, fd, sockets, s, tries, failed>>

add_done ==
  /\ pc = "add" /\ i > n
  /\ pc' = "ok"
  /\ UNCHANGED <<n, fd, sockets, s, i, tries, failed, conn_fd, epoll>>

Next ==
  \/ open_skip \/ open_socket \/ open_error \/ open_in_use \/ open_listen
  \/ open_round \/ conn_listening_add_event \/ add_done

\* The calls return: start-up is one thread that goes on.
Spec == Init /\ [][Next]_vars /\ WF_vars(Next)

-----------------------------------------------------------------------------
\* Through all tries a socket is open just when it is in the table or at hand:
\* a failed bind leaves no descriptor behind, and a retry opens none twice.
NoLeakedSocket ==
  /\ sockets = ({fd[l] : l \in Listener} \cup {s}) \ {0}
  /\ \A l, m \in Listener : l # m /\ fd[l] # 0 => fd[l] # fd[m]
  /\ \A l \in Listener : fd[l] # 0 => fd[l] # s

\* conn_listening_open returns NGX_OK only when every address has its socket,
\* though addresses may succeed in different tries.
AllOpenOnSuccess == pc \in {"add", "ok"} => \A l \in 1 .. n : fd[l] # 0

\* conn_listening_open neither loses a descriptor nor reports a success it did not have,
\* whatever calls fail in whatever try.
SocketsSound == NoLeakedSocket /\ AllOpenOnSuccess

\* The connection of a listening socket is made for that socket's descriptor.
ConnOfItsListener == \A l \in Listener : conn_fd[l] # 0 => conn_fd[l] = fd[l]
=============================================================================
