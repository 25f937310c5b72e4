------------------------------ MODULE ConnSlots ------------------------------
(***************************************************************************)
(* The connection slots of the cli thread: the free list of the pool       *)
(* (core/dfs_conn_pool.cpp), what conn_set_default and conn_release do to  *)
(* a slot (core/dfs_conn.cpp), the accept loop (dn_conn_event.cpp), the    *)
(* registrations in the epoll (core/dfs_epoll.cpp, core/dfs_event.cpp) and *)
(* the queue of posted events through which a turn of the event loop       *)
(* (dn_thread.cpp) reaches the slots.                                      *)
(*                                                                         *)
(* A slot is used by one client after the other, and the epoll and the     *)
(* posted queue only know the slot.  A client stands for its descriptor:   *)
(* it connects once, and a slot's fd is the client it serves.  change_n of *)
(* the pool is 0 for ever (conn_pool_out and conn_pool_in have no caller), *)
(* so that the pool shared between threads is not reached.  The memory     *)
(* pool of a slot is left out.                                             *)
(***************************************************************************)
EXTENDS SequencesExt, FiniteSets

CONSTANTS
  Slot,          \* pool->connections
  Client,
  NoFd,          \* NGX_INVALID_FILE
  nevents        \* events one epoll_wait can return, the listening one aside

ASSUME SlotAssumption ==
  IsFiniteSet(Slot) /\ Slot # {} /\ NoFd \notin Client /\ nevents \in Nat \ {0}

VARIABLES
  client,        \* external: away, backlog, served, closed
  fd, instance, active,    \* of a slot: c->fd, rev->instance, active events
  free, free_n, used_n,    \* free_connections and the counters
  interest,      \* external: the epoll, [slot, instance, mask] of a client
  posted,        \* posted_events: slot, event, last_instance and
                 \* (history) the client it was posted for
  reported,      \* external: the clients epoll_wait has reported in this turn
  listen_ready,  \* the listening event is in posted_accept_events
  turn           \* where thread_event_process is

slots == <<fd, instance, active>>
list == <<free, free_n, used_n>>
cs_vars == <<client, slots, list, interest, posted, reported, listen_ready, turn>>

Ev == {"r", "w"}
None == [slot |-> NoFd, instance |-> 0, mask |-> {}]

CsInit ==
  /\ client = [k \in Client |-> "away"]
  /\ fd = [s \in Slot |-> NoFd]
  /\ instance = [s \in Slot |-> 1]
  /\ active = [s \in Slot |-> {}]
  /\ free = SetToSeq(Slot) /\ free_n = Cardinality(Slot) /\ used_n = 0
  /\ interest = [k \in Client |-> None]
  /\ posted = <<>> /\ reported = {} /\ listen_ready = FALSE
  /\ turn = "wait"

\* A client connects: it waits in the backlog of the listening socket.
connect(k) ==
  /\ client[k] = "away"
  /\ client' = [client EXCEPT ![k] = "backlog"]
  /\ UNCHANGED <<slots, list, interest, posted, reported, listen_ready, turn>>

conn_pool_free_connection(s) ==
  /\ free' = <<s>> \o free
  /\ free_n' = free_n + 1 /\ used_n' = used_n - 1

\* conn_pool_get_connection, for a free list that is not empty.
conn_pool_get_connection ==
  /\ free' = Tail(free)
  /\ free_n' = free_n - 1 /\ used_n' = used_n + 1

\* close(fd) and conn_close: the kernel forgets the descriptor, the events are
\* not active any more.
conn_close(s) ==
  /\ client' = [client EXCEPT ![fd[s]] = "closed"]
  /\ interest' = [interest EXCEPT ![fd[s]] = None]
  /\ fd' = [fd EXCEPT ![s] = NoFd]
  /\ active' = [active EXCEPT ![s] = {}]

\* nn_conn_close: conn_release and conn_pool_free_connection.
nn_conn_close(s) ==
  /\ conn_close(s)
  /\ conn_pool_free_connection(s)
  /\ UNCHANGED instance

\* conn_set_default: rev->instance = !instance
next_instance(s) == 1 - instance[s]

-----------------------------------------------------------------------------
\* What the entry of a client in event_list, with the events m, adds to the queue: each
\* event that is active, unless the entry is stale.
Posts(k, m) ==
  LET s == interest[k].slot
      stale == fd[s] = NoFd \/ instance[s] # interest[k].instance
      Post(e) == IF ~stale /\ e \in m /\ e \in active[s]
                 THEN <<<<s, e, instance[s], k>>>> ELSE <<>>
  IN  Post("r") \o Post("w")

\* One round of the loop of epoll_process_events with EVENT_POST_EVENTS: the kernel has
\* reported some of the events a registration asks for, each client once and in any
\* order.  No handler runs meanwhile.
epoll_post(k) ==
  /\ turn = "wait"
  /\ k \notin reported /\ Cardinality(reported) < nevents
  /\ \E m \in (SUBSET interest[k].mask) \ {{}} : posted' = posted \o Posts(k, m)
  /\ reported' = reported \cup {k}
  /\ UNCHANGED <<client, slots, list, interest, listen_ready, turn>>

\* epoll_process_events returns; the listening event may be among those posted.
epoll_process_events ==
  /\ turn = "wait"
  /\ listen_ready' \in {FALSE, \E k \in Client : client[k] = "backlog"}
  /\ reported' = {}
  /\ turn' = "accept"
  /\ UNCHANGED <<client, slots, list, interest, posted>>

\* Mutant of accept_refused: the handler returns before it accepts.
accept_refused_waits(k) ==
  /\ turn = "accept" /\ listen_ready /\ client[k] = "backlog"
  /\ free = <<>>
  /\ listen_ready' = FALSE
  /\ UNCHANGED <<client, slots, list, interest, posted, reported, turn>>

\* listen_rev_handler: no free slot; the descriptor is closed and the handler
\* returns.
accept_refused(k) ==
  /\ turn = "accept" /\ listen_ready /\ client[k] = "backlog"
  /\ free = <<>>
  /\ client' = [client EXCEPT ![k] = "closed"]
  /\ listen_ready' = FALSE
  /\ UNCHANGED <<slots, list, interest, posted, reported, turn>>

\* listen_rev_handler: the client gets a slot, conn_set_default clears it, and
\* nn_conn_init adds the read event.
accept(k) ==
  LET s == Head(free)
  IN  /\ turn = "accept" /\ listen_ready /\ client[k] = "backlog"
      /\ free # <<>>
      /\ conn_pool_get_connection
      /\ client' = [client EXCEPT ![k] = "served"]
      /\ fd' = [fd EXCEPT ![s] = k]
      /\ instance' = [instance EXCEPT ![s] = next_instance(s)]
      /\ active' = [active EXCEPT ![s] = {"r"}]
      /\ interest' = [interest EXCEPT ![k] =
           [slot |-> s, instance |-> next_instance(s), mask |-> {"r"}]]
      /\ UNCHANGED <<posted, reported, listen_ready, turn>>

\* listen_rev_handler: after conn_set_default a step fails.  In nn_conn_init the
\* slot is given back and the loop goes on; before it the slot is given back and
\* the handler returns.
accept_fails(k) ==
  LET s == Head(free)
  IN  /\ turn = "accept" /\ listen_ready /\ client[k] = "backlog"
      /\ free # <<>>
      /\ client' = [client EXCEPT ![k] = "closed"]
      /\ instance' = [instance EXCEPT ![s] = next_instance(s)]
      /\ active' = [active EXCEPT ![s] = {}]
      /\ listen_ready' \in BOOLEAN
      /\ UNCHANGED <<fd, list, interest, posted, reported, turn>>

\* accept returns EAGAIN or another error, or there was nothing to accept.
accept_done ==
  /\ turn = "accept"
  /\ listen_ready' = FALSE /\ turn' = "posted"
  /\ UNCHANGED <<client, slots, list, interest, posted, reported>>

-----------------------------------------------------------------------------
\* epoll_add_event of a slot: the registration keeps what is active already.
\* When epoll_ctl fails the event is not active.
epoll_add_event(s, e) ==
  /\ e \notin active[s]
  /\ active' = [active EXCEPT ![s] = @ \cup {e}]
  /\ interest' = [interest EXCEPT ![fd[s]] =
       [slot |-> s, instance |-> instance[s], mask |-> active[s] \cup {e}]]
  /\ UNCHANGED <<client, fd, instance, list>>

\* Mutant of epoll_del_event: the descriptor is removed whatever is active.
epoll_del_always(s, e) ==
  /\ e \in active[s]
  /\ active' = [active EXCEPT ![s] = @ \ {e}]
  /\ interest' = [interest EXCEPT ![fd[s]] = None]
  /\ UNCHANGED <<client, fd, instance, list>>

\* epoll_del_event: modified while the other event is active, else removed.
epoll_del_event(s, e) ==
  /\ e \in active[s]
  /\ active' = [active EXCEPT ![s] = @ \ {e}]
  /\ interest' = [interest EXCEPT ![fd[s]] =
       IF active[s] \ {e} = {} THEN None
       ELSE [slot |-> s, instance |-> instance[s], mask |-> active[s] \ {e}]]
  /\ UNCHANGED <<client, fd, instance, list>>

\* What the handlers of a connection do to its slot.
handler(s) ==
  \/ nn_conn_close(s)
  \/ \E e \in Ev : epoll_add_event(s, e) \/ epoll_del_event(s, e)
  \/ UNCHANGED <<client, slots, list, interest>>

\* event_process_posted: one event; that of a closed slot is skipped.
event_process_posted ==
  /\ turn = "posted" /\ posted # <<>>
  /\ posted' = Tail(posted)
  /\ IF fd[Head(posted)[1]] # NoFd
     THEN handler(Head(posted)[1])
     ELSE UNCHANGED <<client, slots, list, interest>>
  /\ UNCHANGED <<reported, listen_ready, turn>>

\* The event of the notice, which is posted among the others, and the timers
\* reach any connection: an answer or a timeout may close it or change its
\* events.
other_handler(s) ==
  /\ turn \in {"posted", "timers"} /\ fd[s] # NoFd
  /\ handler(s)
  /\ UNCHANGED <<posted, reported, listen_ready, turn>>

\* Mutant of posted_done: the queue is left to the next turn.
posted_done_early ==
  /\ turn = "posted"
  /\ turn' = "timers"
  /\ UNCHANGED <<client, slots, list, interest, posted, reported, listen_ready>>

\* event_process_posted returns when its queue is empty.
posted_done ==
  /\ turn = "posted" /\ posted = <<>>
  /\ turn' = "timers"
  /\ UNCHANGED <<client, slots, list, interest, posted, reported, listen_ready>>

timers_done ==
  /\ turn = "timers"
  /\ turn' = "wait"
  /\ UNCHANGED <<client, slots, list, interest, posted, reported, listen_ready>>

Accept == \E k \in Client : accept(k) \/ accept_refused(k) \/ accept_fails(k)

CsNext ==
  \/ \E k \in Client : connect(k) \/ epoll_post(k)
  \/ epoll_process_events \/ Accept \/ accept_done
  \/ event_process_posted \/ posted_done \/ timers_done
  \/ \E s \in Slot : other_handler(s)

\* The thread goes on; the kernel reports a listening socket that stays readable
\* again and again (it is registered level-triggered), and accept does not fail
\* every time.
CsFairness ==
  /\ WF_cs_vars(epoll_process_events \/ accept_done \/ event_process_posted
                \/ posted_done \/ timers_done)
  /\ SF_cs_vars(epoll_process_events /\ listen_ready')
  /\ SF_cs_vars(Accept)

CsSafety == CsInit /\ [][CsNext]_cs_vars
CsSpec == CsSafety /\ CsFairness

-----------------------------------------------------------------------------
\* The free list and the open slots share the table out, each slot once, through
\* every error path of the accept loop, and the counters of the pool agree.
SlotsConserved ==
  /\ IsInjective(free)
  /\ ToSet(free) = {s \in Slot : fd[s] = NoFd}
  /\ free_n = Len(free)
  /\ used_n = Cardinality({s \in Slot : fd[s] # NoFd})

\* Every descriptor accept returned is closed or belongs to exactly one slot.
NoLostDescriptor ==
  \A k \in Client :
    Cardinality({s \in Slot : fd[s] = k}) = IF client[k] = "served" THEN 1 ELSE 0

\* The epoll holds what the active bits say: a registration leads to the slot
\* of its descriptor, with its present instance, and asks for just the active
\* events, so that adding or deleting one event does not drop the other.
EpollMatchesActive ==
  /\ \A k \in Client : interest[k] # None =>
       LET s == interest[k].slot
       IN  fd[s] = k /\ interest[k].instance = instance[s] /\ interest[k].mask = active[s]
  /\ \A s \in Slot : active[s] # {} => interest[fd[s]].slot = s

\* The pool, the descriptors and the epoll have the same connections, through every
\* error path of the accept loop and every reuse of a slot.
ConnectionsAgree == SlotsConserved /\ NoLostDescriptor /\ EpollMatchesActive

\* An event in the posted queue is of the connection it was posted for, or of a
\* slot that was closed since: no slot is given to another client (and its
\* events, with their queue links, are not cleared) while it is in the queue,
\* and no event is linked twice.  Testing fd is then enough to skip stale ones.
PostedForItsConn ==
  /\ IsInjective(posted)
  /\ \A i \in DOMAIN posted :
       LET s == posted[i][1]
       IN  fd[s] \in {posted[i][4], NoFd} /\ instance[s] = posted[i][3]

\* A client in the backlog is accepted or turned away, also when no slot is free
\* and when an accept loop ends early.
BacklogServed ==
  \A k \in Client : client[k] = "backlog" ~> client[k] \in {"served", "closed"}
=============================================================================
