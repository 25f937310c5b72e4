------------------------------- MODULE NnConn -------------------------------
(***************************************************************************)
(* The cli thread and its client connections (nn_request.cpp), driven by   *)
(* its event loop (thread_event_process): accepted connections, the events *)
(* epoll posts, the answers the task threads write back, and the timers.   *)
(*                                                                         *)
(* An nn_conn_t lives in its own memory pool together with max_task task   *)
(* nodes.  A node goes from free_task to a task thread (tq), comes back on *)
(* a write-back queue (bque), waits in out_task until it is encoded into   *)
(* the out buffer and returns to free_task.  count counts the nodes that   *)
(* are away; the pool is destroyed when a closed connection has none.      *)
(*                                                                         *)
(* The cli thread runs one handler at a time: pc is where it is, mc the    *)
(* connection it works on, ret what it goes on with.  The task threads and *)
(* the peers run between any two of its steps.  The wake-up of the queues  *)
(* is NoticeQueue's subject: a push makes the pipe readable here.          *)
(***************************************************************************)
EXTENDS Integers, FiniteSets

CONSTANTS
  Conn,            \* connections, one element per accepted socket
  NoConn,          \* no connection
  MaxTask,         \* max_tqueue_len: task nodes of a connection
  QueueSize,       \* queue_size: write-back queues of the cli thread
  InCap,           \* bound: complete requests the in buffer holds
  OutCap,          \* bound: encoded answers the out buffer holds
  EpollCtlFails,   \* epoll_ctl may fail
  UnknownCmd       \* clients may send a command other than TASK_TEST

Node == 1 .. MaxTask
Queue == 1 .. QueueSize

ASSUME ConnAssumption == NoConn \notin Conn
ASSUME SizeAssumption ==
  /\ MaxTask \in Nat \ {0} /\ QueueSize \in Nat \ {0}
  /\ InCap \in Nat /\ OutCap \in Nat \ {0}
ASSUME SwitchAssumption == EpollCtlFails \in BOOLEAN /\ UnknownCmd \in BOOLEAN

VARIABLES
  state,      \* mc->state ("none" before nn_conn_init)
  mempool,    \* mc->mempool: none, live, destroyed (twice: destroyed again)
  count,      \* mc->count
  free_task,  \* nodes on mc->free_task
  out_task,   \* nodes on mc->out_task
  in,         \* complete requests in mc->in
  out,        \* encoded answers in mc->out
  rev,        \* c->read: active, ready
  wev,        \* c->write: active, ready, timer_set, timedout
  ev_timer,   \* mc->ev_timer.timer_set
  tq,         \* <<c, n>>: nodes at the task threads
  bque,       \* bque[q]: nodes on the write-back queues
  batch,      \* nodes pop_all took and write_back_pack_queue has still to do
  lost,       \* nodes of requests nn_rpc_service_run did not answer
  pipe,       \* the notice's pipe is readable
  posted,     \* posted_events: <<c, "r">> and <<c, "w">>
  notice,     \* the notice's read event is posted
  pc, mc, ret, qi

conn == <<state, mempool, count, free_task, out_task>>
bufs == <<in, out>>
evs == <<rev, wev, ev_timer>>
tasks == <<tq, bque, batch, lost, pipe>>
loop == <<posted, notice, pc, mc, ret, qi>>
vars == <<conn, bufs, evs, tasks, loop>>

Init ==
  /\ state = [c \in Conn |-> "none"]
  /\ mempool = [c \in Conn |-> "none"]
  /\ count = [c \in Conn |-> 0]
  /\ free_task = [c \in Conn |-> Node]
  /\ out_task = [c \in Conn |-> {}]
  /\ in = [c \in Conn |-> 0] /\ out = [c \in Conn |-> 0]
  /\ rev = [c \in Conn |-> [active |-> FALSE, ready |-> FALSE]]
  /\ wev = [c \in Conn |-> [active |-> FALSE, ready |-> FALSE,
                            timer_set |-> FALSE, timedout |-> FALSE]]
  /\ ev_timer = [c \in Conn |-> FALSE]
  /\ tq = {} /\ bque = [q \in Queue |-> {}] /\ batch = {} /\ lost = {}
  /\ pipe = FALSE
  /\ posted = {} /\ notice = FALSE
  /\ pc = "epoll" /\ mc = NoConn /\ ret = "epoll" /\ qi = 1

-----------------------------------------------------------------------------
(* Helpers the handlers share.                                              *)

\* Results of epoll_ctl.
CtlOk == IF EpollCtlFails THEN BOOLEAN ELSE {TRUE}

\* Hand control back to the caller of a handler.
Return == pc' = ret /\ UNCHANGED <<posted, notice, mc, ret, qi>>

\* Go on at p within the handler.
Goto(p) == pc' = p /\ UNCHANGED <<posted, notice, mc, ret, qi>>

\* Call a handler for c at p, to go on at r.
Call(p, c, r) == pc' = p /\ mc' = c /\ ret' = r

pool_destroy(c) ==
  [mempool EXCEPT ![c] = IF @ = "live" THEN "destroyed" ELSE "twice"]

\* Mutant of nn_conn_free_task: it never finalizes.
free_task_no_finalize(c, n) ==
  /\ count' = [count EXCEPT ![c] = @ - 1]
  /\ free_task' = [free_task EXCEPT ![c] = @ \cup {n}]
  /\ UNCHANGED mempool

\* nn_conn_free_task: the node is free again; the last one to come back to a
\* closed connection finalizes it.
nn_conn_free_task(c, n) ==
  /\ count' = [count EXCEPT ![c] = @ - 1]
  /\ free_task' = [free_task EXCEPT ![c] = @ \cup {n}]
  /\ mempool' = IF state[c] = "disconnected" /\ count[c] - 1 = 0
                THEN pool_destroy(c) ELSE mempool

\* Mutant of nn_conn_finalize: the unsent answers are dropped, not freed.
finalize_drops_out(c) ==
  /\ ev_timer' = [ev_timer EXCEPT ![c] = FALSE]
  /\ rev' = [rev EXCEPT ![c].active = FALSE]
  /\ wev' = [wev EXCEPT ![c].active = FALSE, ![c].timer_set = FALSE]
  /\ out_task' = [out_task EXCEPT ![c] = {}]
  /\ state' = [state EXCEPT ![c] = "disconnected"]
  /\ mempool' = IF count[c] > 0 THEN mempool ELSE pool_destroy(c)
  /\ UNCHANGED <<free_task, count>>

\* Mutant of nn_conn_finalize: the count is tested before nn_conn_free_queue.
finalize_tests_first(c) ==
  /\ ev_timer' = [ev_timer EXCEPT ![c] = FALSE]
  /\ rev' = [rev EXCEPT ![c].active = FALSE]
  /\ wev' = [wev EXCEPT ![c].active = FALSE, ![c].timer_set = FALSE]
  /\ free_task' = [free_task EXCEPT ![c] = @ \cup out_task[c]]
  /\ out_task' = [out_task EXCEPT ![c] = {}]
  /\ count' = [count EXCEPT ![c] = @ - Cardinality(out_task[c])]
  /\ state' = [state EXCEPT ![c] = "disconnected"]
  /\ mempool' = IF count[c] > 0 THEN mempool ELSE pool_destroy(c)

\* Mutant of nn_conn_finalize: ev_timer is not deleted.
finalize_keeps_timer(c) ==
  LET left == count[c] - Cardinality(out_task[c]) IN
  /\ rev' = [rev EXCEPT ![c].active = FALSE]
  /\ wev' = [wev EXCEPT ![c].active = FALSE, ![c].timer_set = FALSE]
  /\ free_task' = [free_task EXCEPT ![c] = @ \cup out_task[c]]
  /\ out_task' = [out_task EXCEPT ![c] = {}]
  /\ count' = [count EXCEPT ![c] = left]
  /\ state' = [state EXCEPT ![c] = "disconnected"]
  /\ mempool' = IF left > 0 THEN mempool ELSE pool_destroy(c)
  /\ UNCHANGED ev_timer

\* nn_conn_finalize of a connected mc: delete the timer, nn_conn_close,
\* nn_conn_free_queue, and destroy the pool unless nodes are still away.
nn_conn_finalize(c) ==
  LET left == count[c] - Cardinality(out_task[c]) IN
  /\ ev_timer' = [ev_timer EXCEPT ![c] = FALSE]
  /\ rev' = [rev EXCEPT ![c].active = FALSE]
  /\ wev' = [wev EXCEPT ![c].active = FALSE, ![c].timer_set = FALSE]
  /\ free_task' = [free_task EXCEPT ![c] = @ \cup out_task[c]]
  /\ out_task' = [out_task EXCEPT ![c] = {}]
  /\ count' = [count EXCEPT ![c] = left]
  /\ state' = [state EXCEPT ![c] = "disconnected"]
  /\ mempool' = IF left > 0 THEN mempool ELSE pool_destroy(c)

-----------------------------------------------------------------------------
(* The event loop: thread_event_process for the cli thread.                 *)

\* epoll_process_events: any of the active socket events may be reported, the
\* pipe is reported when it is readable.  An event is marked ready and posted.
epoll_process_events ==
  /\ pc = "epoll"
  /\ \E R \in SUBSET {c \in Conn : rev[c].active},
        W \in SUBSET {c \in Conn : wev[c].active} :
       /\ rev' = [c \in Conn |-> [rev[c] EXCEPT !.ready = @ \/ c \in R]]
       /\ wev' = [c \in Conn |-> [wev[c] EXCEPT !.ready = @ \/ c \in W]]
       /\ posted' = (R \X {"r"}) \cup (W \X {"w"})
  /\ notice' = pipe
  /\ pc' = "accept"
  /\ UNCHANGED <<conn, bufs, ev_timer, tasks, mc, ret, qi>>

\* listen_rev_handler accepts c and nn_conn_init sets it up: pool, nodes, read
\* event.  When the read event cannot be added the pool is destroyed again.
nn_conn_init(c) ==
  /\ pc = "accept" /\ mempool[c] = "none"
  /\ \E ok \in CtlOk :
       /\ mempool' = [mempool EXCEPT ![c] = IF ok THEN "live" ELSE "destroyed"]
       /\ state' = [state EXCEPT ![c] = IF ok THEN "connected" ELSE @]
       /\ rev' = [rev EXCEPT ![c].active = ok]
  /\ UNCHANGED <<count, free_task, out_task, bufs, wev, ev_timer, tasks, loop>>

accept_done ==
  /\ pc = "accept"
  /\ Goto("posted")
  /\ UNCHANGED <<conn, bufs, evs, tasks>>

\* Mutant of event_process_posted: events of closed descriptors are run.
process_posted_closed(c, e) ==
  /\ pc = "posted" /\ <<c, e>> \in posted
  /\ posted' = posted \ {<<c, e>>}
  /\ Call(IF e = "r" THEN "recv" ELSE "write", c, "posted")
  /\ UNCHANGED <<conn, bufs, evs, tasks, notice, qi>>

\* event_process_posted: an event whose descriptor was closed is skipped,
\* otherwise nn_event_process_handler runs the read or the write handler.
event_process_posted(c, e) ==
  /\ pc = "posted" /\ <<c, e>> \in posted
  /\ posted' = posted \ {<<c, e>>}
  /\ IF state[c] # "connected"
     THEN UNCHANGED <<pc, mc, ret>>
     ELSE Call(IF e = "r" THEN "recv" ELSE "write", c, "posted")
  /\ UNCHANGED <<conn, bufs, evs, tasks, notice, qi>>

\* noice_read_event_handler: read the pipe empty, then net_response_handler.
noice_read_event_handler ==
  /\ pc = "posted" /\ notice
  /\ notice' = FALSE /\ pipe' = FALSE
  /\ pc' = "pop" /\ qi' = 1
  /\ UNCHANGED <<conn, bufs, evs, tq, bque, batch, lost, posted, mc, ret>>

posted_done ==
  /\ pc = "posted" /\ posted = {} /\ ~notice
  /\ Goto("timers")
  /\ UNCHANGED <<conn, bufs, evs, tasks>>

\* event_timers_expire has no (more) expired timer: next turn of the loop.
timers_done ==
  /\ pc = "timers"
  /\ pc' = "epoll" /\ mc' = NoConn /\ ret' = "epoll"
  /\ UNCHANGED <<conn, bufs, evs, tasks, posted, notice, qi>>

-----------------------------------------------------------------------------
(* nn_conn_read_handler: recv, then the decode loop.                        *)

\* nn_conn_recv until EAGAIN or until the in buffer is full.
nn_conn_recv ==
  /\ pc = "recv" /\ state[mc] = "connected"
  /\ \E k \in in[mc] .. InCap : in' = [in EXCEPT ![mc] = k]
  /\ Goto("decode")
  /\ UNCHANGED <<conn, out, evs, tasks>>

\* The peer closed, or recv failed.
recv_closed ==
  /\ pc = "recv" /\ state[mc] = "connected"
  /\ nn_conn_finalize(mc)
  /\ Return
  /\ UNCHANGED <<bufs, tasks>>

\* nn_conn_get_task has no node: stop reading for a second.
decode_busy ==
  /\ pc = "decode" /\ count[mc] >= MaxTask
  /\ \E ok \in CtlOk :
       rev' = [rev EXCEPT ![mc] = [active |-> @.active /\ ~ok, ready |-> FALSE]]
  /\ ev_timer' = [ev_timer EXCEPT ![mc] = TRUE]
  /\ Return
  /\ UNCHANGED <<conn, bufs, wev, tasks>>

\* A request was decoded: dispatch_task hands its node to a task thread.
decode_dispatch(n) ==
  /\ pc = "decode" /\ count[mc] < MaxTask
  /\ in[mc] > 0 /\ n \in free_task[mc]
  /\ in' = [in EXCEPT ![mc] = @ - 1]
  /\ count' = [count EXCEPT ![mc] = @ + 1]
  /\ free_task' = [free_task EXCEPT ![mc] = @ \ {n}]
  /\ tq' = tq \cup {<<mc, n>>}
  /\ UNCHANGED <<state, mempool, out_task, out, evs, bque, batch, lost, pipe, loop>>

\* task_decode fails: the node goes back, the buffer is reset, the connection
\* is finalized.
decode_error ==
  /\ pc = "decode" /\ count[mc] < MaxTask /\ in[mc] > 0
  /\ in' = [in EXCEPT ![mc] = 0]
  /\ nn_conn_finalize(mc)
  /\ Return
  /\ UNCHANGED <<out, tasks>>

\* No complete request is left: the node goes back.
decode_again ==
  /\ pc = "decode" /\ count[mc] < MaxTask /\ in[mc] = 0
  /\ Return
  /\ UNCHANGED <<conn, bufs, evs, tasks>>

-----------------------------------------------------------------------------
(* nn_conn_write_handler and nn_conn_output.                                *)

\* The first test of nn_conn_output: with bytes still in the out buffer of a
\* socket that is not writable there is nothing to do.
output_blocked(c) == ~wev[c].ready /\ out[c] > 0

\* The handler returns at once on a closed connection, but no caller has one
\* (HandlerOnLivePool), so there is no action for it; nor for the same test of
\* nn_conn_read_handler, except at timer_read.
write_timedout ==
  /\ pc = "write" /\ state[mc] = "connected" /\ wev[mc].timedout
  /\ nn_conn_finalize(mc)
  /\ Return
  /\ UNCHANGED <<bufs, tasks>>

\* The write timer is deleted, then nn_conn_output.
nn_conn_write_handler ==
  /\ pc = "write" /\ state[mc] = "connected" /\ ~wev[mc].timedout
  /\ wev' = [wev EXCEPT ![mc].timer_set = FALSE]
  /\ IF output_blocked(mc) THEN Return ELSE Goto("pack")
  /\ UNCHANGED <<conn, bufs, rev, ev_timer, tasks>>

\* One turn of the packing loop: task_encode an answer, free its node.
output_pack(n) ==
  /\ pc = "pack" /\ out[mc] < OutCap /\ n \in out_task[mc]
  /\ out' = [out EXCEPT ![mc] = @ + 1]
  /\ out_task' = [out_task EXCEPT ![mc] = @ \ {n}]
  /\ nn_conn_free_task(mc, n)
  /\ UNCHANGED <<state, in, evs, tasks, loop>>

\* No answer is left, or the next one does not fit.
output_packed ==
  /\ pc = "pack" /\ (out_task[mc] = {} \/ out[mc] = OutCap)
  /\ Goto("send")
  /\ UNCHANGED <<conn, bufs, evs, tasks>>

output_empty ==
  /\ pc = "send" /\ out[mc] = 0
  /\ Return
  /\ UNCHANGED <<conn, bufs, evs, tasks>>

\* Mutant of output_sent: the answers that did not fit are not packed.
output_sent_returns ==
  /\ pc = "send" /\ out[mc] > 0 /\ wev[mc].ready
  /\ out' = [out EXCEPT ![mc] = 0]
  /\ \E r \in BOOLEAN : wev' = [wev EXCEPT ![mc].ready = r]
  /\ Return
  /\ UNCHANGED <<conn, in, rev, ev_timer, tasks>>

\* nn_conn_out_buffer sends all of it (in one send, or after a partial one that
\* cleared ready): pack again.
output_sent ==
  /\ pc = "send" /\ out[mc] > 0 /\ wev[mc].ready
  /\ out' = [out EXCEPT ![mc] = 0]
  /\ \E r \in BOOLEAN : wev' = [wev EXCEPT ![mc].ready = r]
  /\ Goto("pack")
  /\ UNCHANGED <<conn, in, rev, ev_timer, tasks>>

\* The socket takes some of it or nothing: event_handle_write and the timer.
\* When the event cannot be added nn_conn_output gives up without a timer.
output_again ==
  /\ pc = "send" /\ out[mc] > 0
  /\ \E left \in 1 .. out[mc], ok \in CtlOk :
       /\ wev[mc].ready \/ left = out[mc]
       /\ out' = [out EXCEPT ![mc] = left]
       /\ LET added == wev[mc].active \/ ok IN
          wev' = [wev EXCEPT ![mc].ready = FALSE,
                             ![mc].active = added,
                             ![mc].timer_set = @ \/ added]
  /\ Return
  /\ UNCHANGED <<conn, in, rev, ev_timer, tasks>>

output_error ==
  /\ pc = "send" /\ out[mc] > 0 /\ wev[mc].ready
  /\ nn_conn_finalize(mc)
  /\ Return
  /\ UNCHANGED <<bufs, tasks>>

-----------------------------------------------------------------------------
(* net_response_handler: the answers of the task threads.                   *)

pop_all ==
  /\ pc = "pop" /\ qi \in Queue
  /\ batch' = bque[qi]
  /\ bque' = [bque EXCEPT ![qi] = {}]
  /\ Goto("batch")
  /\ UNCHANGED <<conn, bufs, evs, tq, lost, pipe>>

\* write_back_pack_queue takes a node, nn_conn_outtask: a closed connection
\* frees it, an open one queues it and goes on with nn_conn_output.
outtask_disconnected(c, n) ==
  /\ pc = "batch" /\ <<c, n>> \in batch /\ state[c] # "connected"
  /\ batch' = batch \ {<<c, n>>}
  /\ nn_conn_free_task(c, n)
  /\ UNCHANGED <<state, out_task, bufs, evs, tq, bque, lost, pipe, loop>>

nn_conn_outtask(c, n) ==
  /\ pc = "batch" /\ <<c, n>> \in batch /\ state[c] = "connected"
  /\ batch' = batch \ {<<c, n>>}
  /\ out_task' = [out_task EXCEPT ![c] = @ \cup {n}]
  /\ Call(IF output_blocked(c) THEN "batch" ELSE "pack", c, "batch")
  /\ UNCHANGED <<state, mempool, count, free_task, bufs, evs, tq, bque, lost,
                 pipe, posted, notice, qi>>

batch_done ==
  /\ pc = "batch" /\ batch = {}
  /\ qi' = qi + 1 /\ pc' = "pop"
  /\ UNCHANGED <<conn, bufs, evs, tasks, posted, notice, mc, ret>>

response_done ==
  /\ pc = "pop" /\ qi \notin Queue
  /\ Goto("posted")
  /\ UNCHANGED <<conn, bufs, evs, tasks>>

-----------------------------------------------------------------------------
(* Timers: event_timers_expire and the handlers it calls.                   *)

\* Mutant of nn_conn_timer_handler: the read event is not added again.
timer_handler_no_read(c) ==
  /\ pc = "timers" /\ ev_timer[c]
  /\ ev_timer' = [ev_timer EXCEPT ![c] = FALSE]
  /\ Call("write", c, "timer_read")
  /\ UNCHANGED <<conn, bufs, rev, wev, tasks, posted, notice, qi>>

\* ev_timer of a connection that had no free node expires, nn_conn_timer_handler:
\* read again, then the write handler (and then, at "timer_read", the read one).
nn_conn_timer_handler(c) ==
  /\ pc = "timers" /\ ev_timer[c]
  /\ \/ /\ ev_timer' = [ev_timer EXCEPT ![c] = FALSE]
        /\ rev' = [rev EXCEPT ![c].active = @ \/ ~rev[c].ready]
        /\ Call("write", c, "timer_read")
        /\ UNCHANGED <<conn, wev>>
     \/ /\ EpollCtlFails /\ ~rev[c].active /\ ~rev[c].ready
        /\ nn_conn_finalize(c)
        /\ UNCHANGED <<pc, mc, ret>>
  /\ UNCHANGED <<bufs, tasks, posted, notice, qi>>

\* The write timer expires: timedout, then the write handler.
write_timer_expire(c) ==
  /\ pc = "timers" /\ wev[c].timer_set
  /\ wev' = [wev EXCEPT ![c].timer_set = FALSE, ![c].timedout = TRUE]
  /\ Call("write", c, "timers")
  /\ UNCHANGED <<conn, bufs, rev, ev_timer, tasks, posted, notice, qi>>

\* nn_conn_timer_handler goes on with nn_conn_read_handler, which looks at
\* mc->state first.
timer_read ==
  /\ pc = "timer_read"
  /\ IF state[mc] = "disconnected"
     THEN pc' = "timers" /\ UNCHANGED <<mc, ret>>
     ELSE Call("recv", mc, "timers")
  /\ UNCHANGED <<conn, bufs, evs, tasks, posted, notice, qi>>

-----------------------------------------------------------------------------
(* The task threads: do_task_handler runs nn_rpc_service_run on a node.     *)

\* task_test: write_back to the queue the thread hashes to, and wake up.
task_test(c, n, q) ==
  /\ <<c, n>> \in tq
  /\ tq' = tq \ {<<c, n>>}
  /\ bque' = [bque EXCEPT ![q] = @ \cup {<<c, n>>}]
  /\ pipe' = TRUE
  /\ UNCHANGED <<conn, bufs, evs, batch, lost, loop>>

\* A command it does not know: it returns NGX_ERROR and nobody has the node.
unknown_optype(c, n) ==
  /\ UnknownCmd /\ <<c, n>> \in tq
  /\ tq' = tq \ {<<c, n>>}
  /\ lost' = lost \cup {<<c, n>>}
  /\ UNCHANGED <<conn, bufs, evs, bque, batch, pipe, loop>>

-----------------------------------------------------------------------------
ReadHandler ==
  \/ nn_conn_recv \/ recv_closed
  \/ decode_busy \/ decode_error \/ decode_again
  \/ \E n \in Node : decode_dispatch(n)

WriteHandler ==
  \/ write_timedout \/ nn_conn_write_handler
  \/ output_packed \/ output_empty \/ output_sent \/ output_again \/ output_error
  \/ \E n \in Node : output_pack(n)

ResponseHandler ==
  \/ pop_all \/ batch_done \/ response_done
  \/ \E c \in Conn, n \in Node : outtask_disconnected(c, n) \/ nn_conn_outtask(c, n)

EventLoop ==
  \/ epoll_process_events \/ accept_done
  \/ noice_read_event_handler \/ posted_done \/ timers_done
  \/ timer_read
  \/ \E c \in Conn :
       \/ nn_conn_init(c) \/ nn_conn_timer_handler(c) \/ write_timer_expire(c)
       \/ \E e \in {"r", "w"} : event_process_posted(c, e)

Cli == EventLoop \/ ReadHandler \/ WriteHandler \/ ResponseHandler

TaskThread(c, n) == unknown_optype(c, n) \/ \E q \in Queue : task_test(c, n, q)

Next == Cli \/ \E c \in Conn, n \in Node : TaskThread(c, n)

SafetySpec == Init /\ [][Next]_vars

\* The cli thread keeps running, every dispatched task is run (NoticeQueue),
\* and the ev_timer of a connection expires: nothing sets it anew while it is
\* set and reading is stopped, and the loop looks at the timers every 10 ms.
\* event_timers_expire ends: a handler that sets its timer again sets it later
\* than now.
Fairness ==
  /\ WF_vars(Cli) /\ SF_vars(timers_done)
  /\ \A c \in Conn : SF_vars(nn_conn_timer_handler(c))
  /\ \A c \in Conn, n \in Node : WF_vars(TaskThread(c, n))

Spec == SafetySpec /\ Fairness

-----------------------------------------------------------------------------
Handlers == {"recv", "decode", "write", "pack", "send"}

ReadEvent == [active : BOOLEAN, ready : BOOLEAN]
WriteEvent == [active : BOOLEAN, ready : BOOLEAN, timer_set : BOOLEAN, timedout : BOOLEAN]

TypeOK ==
  /\ state \in [Conn -> {"none", "connected", "disconnected"}]
  /\ mempool \in [Conn -> {"none", "live", "destroyed", "twice"}]
  /\ count \in [Conn -> Int]
  /\ free_task \in [Conn -> SUBSET Node] /\ out_task \in [Conn -> SUBSET Node]
  /\ in \in [Conn -> 0 .. InCap] /\ out \in [Conn -> 0 .. OutCap]
  /\ rev \in [Conn -> ReadEvent] /\ wev \in [Conn -> WriteEvent]
  /\ ev_timer \in [Conn -> BOOLEAN]
  /\ tq \in SUBSET (Conn \X Node) /\ lost \in SUBSET (Conn \X Node)
  /\ batch \in SUBSET (Conn \X Node) /\ bque \in [Queue -> SUBSET (Conn \X Node)]
  /\ pipe \in BOOLEAN /\ notice \in BOOLEAN
  /\ posted \in SUBSET (Conn \X {"r", "w"})
  /\ pc \in Handlers \cup {"epoll", "accept", "posted", "timers", "timer_read",
                           "pop", "batch"}
  /\ mc \in Conn \cup {NoConn}
  /\ ret \in {"epoll", "posted", "timers", "timer_read", "batch"}
  /\ qi \in 1 .. QueueSize + 1

At(c, S) == {n \in Node : <<c, n>> \in S}

\* Where a node of c can be, one set for each list that can hold it.
Places(c) ==
  [free |-> free_task[c], out |-> out_task[c], tq |-> At(c, tq),
   batch |-> At(c, batch), lost |-> At(c, lost),
   bque |-> {n \in Node : \E q \in Queue : <<c, n>> \in bque[q]}]

\* No node is ever on two lists or on none: free_task, out_task, the queues
\* between the threads and the batch being written back share the max_task nodes.
NodesConserved ==
  \A c \in Conn :
    /\ \A n \in Node : \E p \in DOMAIN Places(c) : n \in Places(c)[p]
    /\ \A p, r \in DOMAIN Places(c) : p # r => Places(c)[p] \cap Places(c)[r] = {}
    /\ \A q, r \in Queue : q # r => At(c, bque[q]) \cap At(c, bque[r]) = {}

\* mc->count is the number of nodes away from free_task, so nn_conn_get_task
\* never takes the head of an empty list and back-pressure starts exactly
\* when the nodes are used up.
CountExact ==
  \A c \in Conn : count[c] = Cardinality(Node \ free_task[c])

\* A task thread, a queue or the batch never holds a node of a pool that was
\* destroyed; a connected mc has a live pool.
NodesOnLivePool ==
  \A c \in Conn :
    (state[c] = "connected" \/ free_task[c] # Node) => mempool[c] = "live"

\* nn_conn_finalize runs for several reasons and again from nn_conn_free_task:
\* it destroys the pool once, and not at all only while nodes are away.
PoolDestroyedOnce ==
  \A c \in Conn :
    /\ mempool[c] # "twice"
    /\ state[c] = "disconnected" => (mempool[c] = "live" <=> count[c] > 0)

\* The timer tree never holds a timer of a connection that was finalized: its
\* ev_timer lies in the pool, its write event in a connection free for reuse.
TimersOnOpenConn ==
  \A c \in Conn : ev_timer[c] \/ wev[c].timer_set => state[c] = "connected"

\* The read and the write handler and nn_conn_output only ever work on an open
\* connection whose pool is live, whatever was posted before it was closed.
HandlerOnLivePool ==
  pc \in Handlers => mempool[mc] = "live" /\ state[mc] = "connected"

\* nn_conn_timer_handler calls the write handler and then the read handler on
\* the same mc.  The write handler may finalize mc, and then the read handler
\* would test mc->state in a destroyed pool; called from the timer it never does.
NoUseAfterDestroy ==
  pc = "timer_read" => mempool[mc] = "live" /\ state[mc] = "connected"

\* A pool outlives all its users and no more: the nodes handed out, the handlers that
\* run, the timer that calls two of them, and the finalizes that come in any number.
PoolLifetime ==
  NodesOnLivePool /\ PoolDestroyedOnce /\ HandlerOnLivePool /\ NoUseAfterDestroy

\* Back-pressure does not strand a connection: when its reads are off, the
\* timer that turns them on again is set.
ReadArmed ==
  \A c \in Conn : state[c] = "connected" /\ ~rev[c].active => ev_timer[c]

\* The timer of a connection is set whenever its reads are off, and never once it is
\* finalized: nn_conn_finalize and the back-pressure agree on who takes it out.
TimersRight == TimersOnOpenConn /\ ReadArmed

\* Outside nn_conn_output, answers that are not sent yet wait for a write event
\* that is in the epoll, behind bytes in the out buffer.
AnswersArmed ==
  \A c \in Conn :
    /\ state[c] = "connected" /\ ~(mc = c /\ pc \in {"pack", "send"})
    /\ out[c] > 0 \/ out_task[c] # {}
    => wev[c].active /\ out[c] > 0

-----------------------------------------------------------------------------
Phase(c) ==
  CASE mempool[c] = "none" -> "none"
    [] mempool[c] = "live" /\ state[c] = "connected" -> "open"
    [] mempool[c] = "live" /\ state[c] = "disconnected" -> "closing"
    [] OTHER -> "gone"

Contract == INSTANCE ConnContract
  WITH phase <- [c \in Conn |-> Phase(c)],
       busy <- [c \in Conn |-> Node \ free_task[c]]

\* Seen from the threads that hold nodes, the handlers above implement the
\* contract of the pool (nodes are handed out by an open connection only, come
\* back once, and the pool goes with the last of them).
ImplementsContract == Contract!Spec

\* The pool of a closed connection is destroyed in the end, unless a request
\* of it was of an unknown command.
PoolReleased ==
  \A c \in Conn : state[c] = "disconnected" ~>
    mempool[c] = "destroyed" \/ At(c, lost) # {}

\* A connection whose reads were turned off reads again, or it is closed.
ReadingResumes ==
  \A c \in Conn : state[c] = "connected" /\ ~rev[c].active ~>
    rev[c].active \/ state[c] = "disconnected"

\* A node given to a task thread reaches the connection again (free_task or
\* out_task), unless its command is unknown.
NodesReturn ==
  \A c \in Conn, n \in Node : <<c, n>> \in tq ~>
    n \in free_task[c] \cup out_task[c] \cup At(c, lost)

\* All that nn_conn_init and nn_conn_get_task gave out comes back in the end, through
\* the task threads and the notices: the nodes, and the pool of a closed connection.
EverythingReturns == PoolReleased /\ NodesReturn
=============================================================================
