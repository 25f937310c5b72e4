---------------------------- MODULE NnConnProofs ----------------------------
(***************************************************************************)
(* Proofs about NnConn: the lifetime of a connection's pool and nodes, for *)
(* any number of connections, nodes and queues and any buffer sizes.       *)
(***************************************************************************)
EXTENDS NnConn, FiniteSetTheorems, TLAPS

\* write_back_pack_queue is running, or a handler it called.
InBatch == pc = "batch" \/ (pc \in Handlers /\ ret = "batch")

\* A handler works on a connection, not on NoConn, and a batch is the list of
\* one of the queues.
McInv ==
  /\ pc \in Handlers \cup {"timer_read"} => mc \in Conn
  /\ InBatch => qi \in Queue

TypeInv == TypeOK /\ McInv

\* Changing fields of an event keeps it an event.
LEMMA ReadEventType ==
  ASSUME NEW r \in ReadEvent, NEW a \in BOOLEAN, NEW b \in BOOLEAN
  PROVE  /\ [r EXCEPT !.active = a] \in ReadEvent
         /\ [r EXCEPT !.ready = r.ready \/ a] \in ReadEvent
         /\ [active |-> a, ready |-> b] \in ReadEvent
  BY DEF ReadEvent

\* The same for write events.
LEMMA WriteEventType ==
  ASSUME NEW w \in WriteEvent, NEW a \in BOOLEAN, NEW b \in BOOLEAN,
         NEW d \in BOOLEAN
  PROVE  /\ [w EXCEPT !.ready = a] \in WriteEvent
         /\ [w EXCEPT !.ready = w.ready \/ a] \in WriteEvent
         /\ [w EXCEPT !.timer_set = a] \in WriteEvent
         /\ [w EXCEPT !.active = a, !.timer_set = b] \in WriteEvent
         /\ [w EXCEPT !.timer_set = a, !.timedout = b] \in WriteEvent
         /\ [w EXCEPT !.ready = a, !.active = b, !.timer_set = d] \in WriteEvent
  BY DEF WriteEvent

\* Cardinality of a set of nodes.
LEMMA NodeCard ==
  ASSUME NEW S \in SUBSET Node
  PROVE  IsFiniteSet(S) /\ Cardinality(S) \in Nat
<1>1. IsFiniteSet(Node)
  BY SizeAssumption, FS_Interval DEF SizeAssumption, Node
<1> QED
  BY <1>1, FS_Subset, FS_CardinalityType

\* nn_conn_finalize and nn_conn_free_task keep the types.
LEMMA FinalizeType ==
  ASSUME TypeOK, NEW c \in Conn, nn_conn_finalize(c)
  PROVE  /\ state' \in [Conn -> {"none", "connected", "disconnected"}]
         /\ mempool' \in [Conn -> {"none", "live", "destroyed", "twice"}]
         /\ count' \in [Conn -> Int]
         /\ free_task' \in [Conn -> SUBSET Node] /\ out_task' \in [Conn -> SUBSET Node]
         /\ rev' \in [Conn -> ReadEvent] /\ wev' \in [Conn -> WriteEvent]
         /\ ev_timer' \in [Conn -> BOOLEAN]
<1>1. Cardinality(out_task[c]) \in Nat
  BY NodeCard DEF TypeOK
<1>2. state' \in [Conn -> {"none", "connected", "disconnected"}] /\ ev_timer' \in [Conn -> BOOLEAN]
  BY DEF TypeOK, nn_conn_finalize
<1>3. mempool' \in [Conn -> {"none", "live", "destroyed", "twice"}]
  BY DEF TypeOK, nn_conn_finalize, pool_destroy
<1>4. count' \in [Conn -> Int]
  BY <1>1 DEF TypeOK, nn_conn_finalize
<1>5. free_task' \in [Conn -> SUBSET Node] /\ out_task' \in [Conn -> SUBSET Node]
  BY DEF TypeOK, nn_conn_finalize
<1>6. rev' \in [Conn -> ReadEvent] /\ wev' \in [Conn -> WriteEvent]
  <2>1. rev[c] \in ReadEvent /\ wev[c] \in WriteEvent
    BY DEF TypeOK
  <2>2. rev' = [rev EXCEPT ![c] = [rev[c] EXCEPT !.active = FALSE]]
    BY DEF nn_conn_finalize, TypeOK
  <2>3. wev' = [wev EXCEPT ![c] = [wev[c] EXCEPT !.active = FALSE, !.timer_set = FALSE]]
    BY DEF nn_conn_finalize, TypeOK
  <2> QED
    BY <2>1, <2>2, <2>3, ReadEventType, WriteEventType DEF TypeOK
<1> QED
  BY <1>2, <1>3, <1>4, <1>5, <1>6

\* The steps of the event loop keep the types.
LEMMA EventLoopType ==
  ASSUME TypeInv, EventLoop
  PROVE  TypeInv'
<1> USE SizeAssumption, SwitchAssumption
    DEF SizeAssumption, SwitchAssumption, TypeInv, TypeOK, McInv, InBatch, Handlers,
        conn, bufs, evs, tasks, loop, Goto, Call
<1>1. CASE epoll_process_events
  <2> PICK R \in SUBSET {c \in Conn : rev[c].active},
           W \in SUBSET {c \in Conn : wev[c].active} :
             /\ rev' = [c \in Conn |-> [rev[c] EXCEPT !.ready = @ \/ c \in R]]
             /\ wev' = [c \in Conn |-> [wev[c] EXCEPT !.ready = @ \/ c \in W]]
             /\ posted' = (R \X {"r"}) \cup (W \X {"w"})
    BY <1>1 DEF epoll_process_events
  <2>1. rev' \in [Conn -> ReadEvent] /\ wev' \in [Conn -> WriteEvent]
    <3>1. \A c \in Conn : rev[c] \in ReadEvent /\ wev[c] \in WriteEvent
      OBVIOUS
    <3> HIDE DEF TypeOK
    <3>4. \A c \in Conn : /\ [rev[c] EXCEPT !.ready = @ \/ c \in R] \in ReadEvent
                         /\ [wev[c] EXCEPT !.ready = @ \/ c \in W] \in WriteEvent
      BY <3>1, ReadEventType, WriteEventType
    <3> QED
      BY <3>4
  <2>2. posted' \in SUBSET (Conn \X {"r", "w"})
    OBVIOUS
  <2> QED
    BY <1>1, <2>1, <2>2 DEF epoll_process_events
<1>2. CASE accept_done \/ posted_done \/ timers_done
  BY <1>2 DEF accept_done, posted_done, timers_done
<1>8. CASE noice_read_event_handler
  <2>1. qi' \in 1 .. QueueSize + 1
    BY <1>8 DEF noice_read_event_handler
  <2> QED
    BY <1>8, <2>1 DEF noice_read_event_handler
<1>3. CASE timer_read
  BY <1>3 DEF timer_read
<1>4. ASSUME NEW c \in Conn, nn_conn_init(c) PROVE TypeInv'
  <2> PICK ok \in BOOLEAN :
         /\ mempool' = [mempool EXCEPT ![c] = IF ok THEN "live" ELSE "destroyed"]
         /\ state' = [state EXCEPT ![c] = IF ok THEN "connected" ELSE @]
         /\ rev' = [rev EXCEPT ![c] = [rev[c] EXCEPT !.active = ok]]
    BY <1>4 DEF nn_conn_init, CtlOk
  <2>1. [rev[c] EXCEPT !.active = ok] \in ReadEvent
    BY DEF ReadEvent
  <2>2. rev' \in [Conn -> ReadEvent]
    BY <2>1
  <2> QED
    BY <1>4, <2>2 DEF nn_conn_init
<1>5. ASSUME NEW c \in Conn, nn_conn_timer_handler(c) PROVE TypeInv'
  <2>1. CASE /\ ev_timer' = [ev_timer EXCEPT ![c] = FALSE]
             /\ rev' = [rev EXCEPT ![c].active = @ \/ ~rev[c].ready]
             /\ Call("write", c, "timer_read")
             /\ UNCHANGED <<conn, wev>>
    <3>1. rev' = [rev EXCEPT ![c] = [rev[c] EXCEPT !.active = rev[c].active \/ ~rev[c].ready]]
      BY <2>1
    <3>2. [rev[c] EXCEPT !.active = rev[c].active \/ ~rev[c].ready] \in ReadEvent
      BY DEF ReadEvent
    <3>3. rev' \in [Conn -> ReadEvent]
      BY <3>1, <3>2
    <3> QED
      BY <1>5, <2>1, <3>3 DEF nn_conn_timer_handler
  <2>2. CASE nn_conn_finalize(c) /\ UNCHANGED <<pc, mc, ret>>
    <3> HIDE DEF TypeOK
    <3>1. /\ state' \in [Conn -> {"none", "connected", "disconnected"}]
          /\ mempool' \in [Conn -> {"none", "live", "destroyed", "twice"}]
          /\ count' \in [Conn -> Int]
          /\ free_task' \in [Conn -> SUBSET Node] /\ out_task' \in [Conn -> SUBSET Node]
          /\ rev' \in [Conn -> ReadEvent] /\ wev' \in [Conn -> WriteEvent]
          /\ ev_timer' \in [Conn -> BOOLEAN]
      BY <2>2, FinalizeType
    <3> QED
      BY <1>5, <2>2, <3>1 DEF nn_conn_timer_handler, TypeOK
  <2> QED
    BY <1>5, <2>1, <2>2 DEF nn_conn_timer_handler
<1>6. ASSUME NEW c \in Conn, write_timer_expire(c) PROVE TypeInv'
  <2>1. wev' = [wev EXCEPT ![c] = [wev[c] EXCEPT !.timer_set = FALSE, !.timedout = TRUE]]
    BY <1>6 DEF write_timer_expire
  <2>2. [wev[c] EXCEPT !.timer_set = FALSE, !.timedout = TRUE] \in WriteEvent
    <3>1. wev[c] \in WriteEvent
      OBVIOUS
    <3> HIDE DEF TypeOK
    <3> QED
      BY <3>1, WriteEventType
  <2>3. wev' \in [Conn -> WriteEvent]
    BY <2>1, <2>2
  <2> QED
    BY <1>6, <2>3 DEF write_timer_expire
<1>7. ASSUME NEW c \in Conn, NEW e \in {"r", "w"}, event_process_posted(c, e)
      PROVE  TypeInv'
  BY <1>7 DEF event_process_posted
<1> QED
  BY <1>1, <1>2, <1>3, <1>4, <1>5, <1>6, <1>7, <1>8 DEF EventLoop

\* A handler that finalizes the connection and returns keeps the types.
LEMMA FinalizeReturnType ==
  ASSUME TypeInv, mc \in Conn, nn_conn_finalize(mc), Return,
         in' \in [Conn -> 0 .. InCap], out' = out, UNCHANGED tasks,
         pc \in Handlers
  PROVE  TypeInv'
<1>1. /\ state' \in [Conn -> {"none", "connected", "disconnected"}]
      /\ mempool' \in [Conn -> {"none", "live", "destroyed", "twice"}]
      /\ count' \in [Conn -> Int]
      /\ free_task' \in [Conn -> SUBSET Node] /\ out_task' \in [Conn -> SUBSET Node]
      /\ rev' \in [Conn -> ReadEvent] /\ wev' \in [Conn -> WriteEvent]
      /\ ev_timer' \in [Conn -> BOOLEAN]
  BY FinalizeType DEF TypeInv
<1> QED
  BY <1>1 DEF TypeInv, TypeOK, McInv, InBatch, Handlers, Return, tasks

\* The steps of the read handler keep the types.
LEMMA ReadHandlerType ==
  ASSUME TypeInv, ReadHandler
  PROVE  TypeInv'
<1> USE SizeAssumption, SwitchAssumption DEF SizeAssumption, SwitchAssumption
<1>0. mc \in Conn /\ pc \in Handlers
  BY DEF TypeInv, McInv, InBatch, Handlers, ReadHandler, nn_conn_recv,
         recv_closed, decode_busy, decode_error, decode_again, decode_dispatch
<1>1. CASE decode_again
  BY <1>0, <1>1 DEF TypeInv, TypeOK, McInv, InBatch, decode_again, Return,
                    conn, bufs, evs, tasks
<1>2. CASE nn_conn_recv
  BY <1>0, <1>2 DEF TypeInv, TypeOK, McInv, InBatch, Handlers, nn_conn_recv, Goto,
                    conn, evs, tasks
<1>3. CASE recv_closed
  <2>1. in' \in [Conn -> 0 .. InCap] /\ out' = out
    BY <1>3 DEF recv_closed, bufs, TypeInv, TypeOK
  <2> QED
    BY <1>0, <1>3, <2>1, FinalizeReturnType DEF recv_closed, Handlers
<1>4. CASE decode_error
  <2>1. in' \in [Conn -> 0 .. InCap] /\ out' = out
    <3>1. 0 \in 0 .. InCap
      OBVIOUS
    <3>2. in \in [Conn -> 0 .. InCap] /\ in' = [in EXCEPT ![mc] = 0] /\ out' = out
      BY <1>4 DEF decode_error, TypeInv, TypeOK
    <3> QED
      BY <3>1, <3>2
  <2> QED
    BY <1>0, <1>4, <2>1, FinalizeReturnType DEF decode_error, Handlers
<1>5. CASE decode_busy
  <2> PICK ok \in BOOLEAN :
        rev' = [rev EXCEPT ![mc] = [active |-> rev[mc].active /\ ~ok, ready |-> FALSE]]
    BY <1>0, <1>5 DEF decode_busy, CtlOk
  <2>1. (rev[mc].active /\ ~ok) \in BOOLEAN /\ rev[mc] \in ReadEvent
    BY <1>0 DEF TypeInv, TypeOK
  <2>2. rev' \in [Conn -> ReadEvent]
    BY <2>1, <1>0, ReadEventType DEF TypeInv, TypeOK
  <2> QED
    BY <1>0, <1>5, <2>2 DEF TypeInv, TypeOK, McInv, InBatch, decode_busy, Return, conn, bufs, tasks
<1>6. ASSUME NEW n \in Node, decode_dispatch(n) PROVE TypeInv'
  <2>1. in' \in [Conn -> 0 .. InCap]
    BY <1>0, <1>6 DEF decode_dispatch, TypeInv, TypeOK
  <2>2. /\ count' \in [Conn -> Int] /\ free_task' \in [Conn -> SUBSET Node]
        /\ tq' \in SUBSET (Conn \X Node)
    BY <1>0, <1>6 DEF decode_dispatch, TypeInv, TypeOK
  <2> QED
    BY <1>0, <1>6, <2>1, <2>2 DEF TypeInv, TypeOK, McInv, InBatch, decode_dispatch, evs, loop
<1> QED
  BY <1>1, <1>2, <1>3, <1>4, <1>5, <1>6 DEF ReadHandler

\* The steps of the write handler and of nn_conn_output keep the types.
LEMMA WriteHandlerType ==
  ASSUME TypeInv, WriteHandler
  PROVE  TypeInv'
<1> USE SizeAssumption, SwitchAssumption DEF SizeAssumption, SwitchAssumption
<1>0. mc \in Conn /\ pc \in Handlers
  BY DEF TypeInv, McInv, InBatch, Handlers, WriteHandler, write_timedout,
         nn_conn_write_handler, output_packed, output_empty, output_sent,
         output_again, output_error, output_pack
<1>1. CASE output_empty
  BY <1>0, <1>1 DEF TypeInv, TypeOK, McInv, InBatch, output_empty, Return,
                    conn, bufs, evs, tasks
<1>2. CASE output_packed
  BY <1>0, <1>2 DEF TypeInv, TypeOK, McInv, InBatch, Handlers, output_packed, Goto,
                    conn, bufs, evs, tasks
<1>3. CASE write_timedout \/ output_error
  <2>1. in' \in [Conn -> 0 .. InCap] /\ out' = out
    BY <1>3 DEF write_timedout, output_error, bufs, TypeInv, TypeOK
  <2> QED
    BY <1>0, <1>3, <2>1, FinalizeReturnType DEF write_timedout, output_error, Handlers
<1>4. CASE nn_conn_write_handler
  <2>1. wev' = [wev EXCEPT ![mc] = [wev[mc] EXCEPT !.timer_set = FALSE]]
    BY <1>4 DEF nn_conn_write_handler
  <2>2. wev' \in [Conn -> WriteEvent]
    BY <2>1, <1>0, WriteEventType DEF TypeInv, TypeOK
  <2> QED
    BY <1>0, <1>4, <2>2 DEF TypeInv, TypeOK, McInv, InBatch, Handlers, nn_conn_write_handler,
                            Return, Goto, conn, bufs, tasks
<1>5. CASE output_sent
  <2> PICK r \in BOOLEAN : wev' = [wev EXCEPT ![mc] = [wev[mc] EXCEPT !.ready = r]]
    BY <1>5 DEF output_sent
  <2>1. wev' \in [Conn -> WriteEvent]
    BY <1>0, WriteEventType DEF TypeInv, TypeOK
  <2>2. out' \in [Conn -> 0 .. OutCap]
    BY <1>0, <1>5 DEF output_sent, TypeInv, TypeOK
  <2> QED
    BY <1>0, <1>5, <2>1, <2>2 DEF TypeInv, TypeOK, McInv, InBatch, Handlers, output_sent, Goto,
                                  conn, tasks
<1>6. CASE output_again
  <2>p. PICK left \in 1 .. out[mc], ok \in CtlOk :
        /\ out' = [out EXCEPT ![mc] = left]
        /\ LET added == wev[mc].active \/ ok IN
           wev' = [wev EXCEPT ![mc].ready = FALSE,
                              ![mc].active = added,
                              ![mc].timer_set = @ \/ added]
    BY <1>6, Zenon DEF output_again
  <2> DEFINE a == wev[mc].active \/ ok
             t == wev[mc].timer_set \/ a
  <2>1. wev' = [wev EXCEPT ![mc] = [wev[mc] EXCEPT !.ready = FALSE, !.active = a, !.timer_set = t]]
    BY <2>p, <1>0 DEF TypeInv, TypeOK
  <2>2. wev[mc] \in WriteEvent /\ a \in BOOLEAN /\ t \in BOOLEAN
    BY <1>0 DEF TypeInv, TypeOK
  <2> HIDE DEF a, t
  <2>5. [wev[mc] EXCEPT !.ready = FALSE, !.active = a, !.timer_set = t] \in WriteEvent
    BY <2>2, WriteEventType
  <2>3. wev' \in [Conn -> WriteEvent]
    BY <1>0, <2>1, <2>5 DEF TypeInv, TypeOK
  <2>4. out' \in [Conn -> 0 .. OutCap]
    <3>1. out' = [out EXCEPT ![mc] = left]
      BY <2>p
    <3>2. out \in [Conn -> 0 .. OutCap] /\ mc \in Conn
      BY <1>0 DEF TypeInv, TypeOK
    <3> QED
      BY <3>1, <3>2, SizeAssumption DEF SizeAssumption
  <2> QED
    BY <1>0, <1>6, <2>3, <2>4 DEF TypeInv, TypeOK, McInv, InBatch, output_again, Return, conn, tasks
<1>7. ASSUME NEW n \in Node, output_pack(n) PROVE TypeInv'
  <2>1. out' \in [Conn -> 0 .. OutCap]
    BY <1>0, <1>7 DEF output_pack, TypeInv, TypeOK
  <2>2. /\ count' \in [Conn -> Int] /\ free_task' \in [Conn -> SUBSET Node]
        /\ out_task' \in [Conn -> SUBSET Node]
    BY <1>0, <1>7 DEF output_pack, nn_conn_free_task, TypeInv, TypeOK
  <2>3. mempool' \in [Conn -> {"none", "live", "destroyed", "twice"}]
    BY <1>0, <1>7 DEF output_pack, nn_conn_free_task, pool_destroy, TypeInv, TypeOK
  <2> QED
    BY <1>0, <1>7, <2>1, <2>2, <2>3 DEF TypeInv, TypeOK, McInv, InBatch, output_pack, evs, tasks, loop
<1> QED
  BY <1>1, <1>2, <1>3, <1>4, <1>5, <1>6, <1>7 DEF WriteHandler

\* The steps of net_response_handler keep the types.
LEMMA ResponseHandlerType ==
  ASSUME TypeInv, ResponseHandler
  PROVE  TypeInv'
<1> USE SizeAssumption DEF SizeAssumption
<1>1. CASE pop_all
  BY <1>1 DEF TypeInv, TypeOK, McInv, InBatch, Handlers, pop_all, Goto, conn, bufs, evs
<1>2. CASE batch_done
  <2>1. qi' \in 1 .. QueueSize + 1
    BY <1>2 DEF TypeInv, TypeOK, McInv, InBatch, batch_done, Queue
  <2> QED
    BY <1>2, <2>1 DEF TypeInv, TypeOK, McInv, InBatch, Handlers, batch_done, conn, bufs, evs, tasks
<1>3. CASE response_done
  BY <1>3 DEF TypeInv, TypeOK, McInv, InBatch, Handlers, response_done, Goto, conn, bufs, evs, tasks
<1>4. ASSUME NEW c \in Conn, NEW n \in Node, outtask_disconnected(c, n)
      PROVE  TypeInv'
  <2>1. count' \in [Conn -> Int] /\ free_task' \in [Conn -> SUBSET Node]
    BY <1>4 DEF outtask_disconnected, nn_conn_free_task, TypeInv, TypeOK
  <2>2. mempool' \in [Conn -> {"none", "live", "destroyed", "twice"}]
    BY <1>4 DEF outtask_disconnected, nn_conn_free_task, pool_destroy, TypeInv, TypeOK
  <2> QED
    BY <1>4, <2>1, <2>2 DEF TypeInv, TypeOK, McInv, InBatch, outtask_disconnected, bufs, evs, loop
<1>5. ASSUME NEW c \in Conn, NEW n \in Node, nn_conn_outtask(c, n)
      PROVE  TypeInv'
  BY <1>5 DEF TypeInv, TypeOK, McInv, InBatch, Handlers, nn_conn_outtask, Call, bufs, evs
<1> QED
  BY <1>1, <1>2, <1>3, <1>4, <1>5 DEF ResponseHandler

\* Types hold initially.
LEMMA TypeInit == Init => TypeInv
<1> USE SizeAssumption DEF SizeAssumption
<1> SUFFICES ASSUME Init PROVE TypeInv
  OBVIOUS
<1>1. in \in [Conn -> 0 .. InCap] /\ out \in [Conn -> 0 .. OutCap]
  BY DEF Init
<1>2. rev \in [Conn -> ReadEvent] /\ wev \in [Conn -> WriteEvent]
  BY DEF Init, ReadEvent, WriteEvent
<1>3. qi \in 1 .. QueueSize + 1 /\ count \in [Conn -> Int]
  BY DEF Init
<1>4. McInv
  BY DEF Init, McInv, InBatch, Handlers
<1> QED
  BY <1>1, <1>2, <1>3, <1>4 DEF Init, TypeInv, TypeOK, Handlers

\* Every step keeps the types.
LEMMA TypeStep ==
  ASSUME TypeInv, [Next]_vars
  PROVE  TypeInv'
<1>1. CASE Cli
  BY <1>1, EventLoopType, ReadHandlerType, WriteHandlerType, ResponseHandlerType DEF Cli
<1>2. ASSUME NEW c \in Conn, NEW n \in Node, TaskThread(c, n) PROVE TypeInv'
  <2>1. CASE unknown_optype(c, n)
    BY <2>1 DEF TypeInv, TypeOK, McInv, InBatch, unknown_optype, conn, bufs, evs, loop
  <2>2. ASSUME NEW q \in Queue, task_test(c, n, q) PROVE TypeInv'
    BY <2>2 DEF TypeInv, TypeOK, McInv, InBatch, task_test, conn, bufs, evs, loop
  <2> QED
    BY <1>2, <2>1, <2>2 DEF TaskThread
<1>3. CASE UNCHANGED vars
  BY <1>3 DEF TypeInv, TypeOK, McInv, InBatch, vars, conn, bufs, evs, tasks, loop
<1> QED
  BY <1>1, <1>2, <1>3 DEF Next

-----------------------------------------------------------------------------
(* The inductive invariant.                                                 *)

\* Handlers run on open connections; nodes are in the batch only while it is
\* being worked on.
ControlInv ==
  /\ pc \in Handlers => state[mc] = "connected"
  /\ batch # {} => InBatch

\* Timers belong to open connections, and reading is off only with ev_timer set
\* and the read event not ready (event_handle_read adds it again).
EventInv ==
  \A c \in Conn :
    /\ ev_timer[c] \/ wev[c].timer_set => state[c] = "connected"
    /\ state[c] = "connected" /\ ~rev[c].active => ev_timer[c] /\ ~rev[c].ready

\* The pool of a connection: live while it is open, and afterwards exactly while
\* a node is away.
LifeInv ==
  \A c \in Conn :
    /\ mempool[c] # "twice"
    /\ state[c] = "connected" => mempool[c] = "live"
    /\ state[c] = "none" => mempool[c] # "live" /\ free_task[c] = Node
    /\ state[c] = "disconnected" =>
         mempool[c] # "none" /\ (mempool[c] = "live" <=> free_task[c] # Node)

\* nn_conn_output leaves nothing of c behind that it could send at once: the rest
\* waits in the out buffer, not ready, for a write event that is in the epoll
\* (if epoll_ctl does not fail) or already posted.
InOutput(c) == mc = c /\ pc \in {"pack", "send"}
OutputOf(c) ==
  /\ wev[c].timedout => mc = c /\ pc = "write" /\ ret = "timers"
  /\ ~InOutput(c) /\ out_task[c] # {} => out[c] > 0
  /\ ~InOutput(c) /\ out[c] > 0 => wev[c].active \/ EpollCtlFails
  /\ ~InOutput(c) /\ out[c] > 0 /\ wev[c].ready =>
       <<c, "w">> \in posted \/ (mc = c /\ pc = "write" /\ ret = "posted")
OutputInv ==
  \A c \in Conn :
    /\ mempool[c] = "none" => out[c] = 0 /\ out_task[c] = {} /\ ~wev[c].timedout
    /\ state[c] = "connected" => OutputOf(c)

\* No event is posted when the timers run, so the write handler they call has
\* nothing to send and leaves the connection open for timer_read.
AtTimers == pc \in Handlers /\ ret \in {"epoll", "timers", "timer_read"}
LoopInv ==
  /\ pc \in {"epoll", "timers", "timer_read"} \/ AtTimers => posted = {}
  /\ pc = "timer_read" => state[mc] = "connected"
  /\ pc \in {"recv", "decode"} => ret # "timer_read"
  /\ pc \in {"pack", "send"} /\ ret = "timer_read" => out[mc] = 0 /\ out_task[mc] = {}
  /\ pc = "send" /\ out[mc] = 0 => out_task[mc] = {}

\* NodesConserved, list by list.
Held(c, n) == \E q \in Queue : <<c, n>> \in bque[q]
NodeOnce(c, n) ==
  /\ \/ n \in free_task[c] \/ n \in out_task[c] \/ <<c, n>> \in tq
     \/ <<c, n>> \in batch \/ <<c, n>> \in lost \/ Held(c, n)
  /\ n \in free_task[c] => n \notin out_task[c]
  /\ n \in free_task[c] \/ n \in out_task[c] =>
       <<c, n>> \notin tq /\ <<c, n>> \notin batch /\ <<c, n>> \notin lost /\ ~Held(c, n)
  /\ <<c, n>> \in tq => <<c, n>> \notin batch /\ <<c, n>> \notin lost /\ ~Held(c, n)
  /\ <<c, n>> \in batch => <<c, n>> \notin lost /\ ~Held(c, n)
  /\ <<c, n>> \in lost => ~Held(c, n)
  /\ \A q, r \in Queue : <<c, n>> \in bque[q] /\ <<c, n>> \in bque[r] => q = r
NodesOnce == \A c \in Conn, n \in Node : NodeOnce(c, n)

IInv ==
  /\ TypeInv /\ ControlInv /\ EventInv /\ LifeInv
  /\ OutputInv /\ LoopInv
  /\ NodesOnce /\ CountExact

\* The kinds of steps the lifetime of connections and nodes depends on.
Finalizes(c) ==
  state[c] = "connected" /\ nn_conn_finalize(c) /\ UNCHANGED <<tq, bque, batch, lost>>
nodes == <<count, free_task, out_task, tq, bque, batch, lost>>
MovesNode ==
  \/ pop_all
  \/ \E n \in Node : decode_dispatch(n) \/ output_pack(n)
  \/ \E c \in Conn, n \in Node :
       outtask_disconnected(c, n) \/ nn_conn_outtask(c, n) \/ TaskThread(c, n)

\* A step finalizes an open connection, moves nodes, opens a connection, or
\* leaves connections and nodes alone.
LEMMA StepKinds ==
  ASSUME TypeInv, ControlInv, EventInv, [Next]_vars
  PROVE  \/ UNCHANGED <<state, mempool, nodes>>
         \/ MovesNode
         \/ \E c \in Conn : Finalizes(c) \/ nn_conn_init(c)
<1> USE DEF conn, tasks, nodes
<1>1. CASE EventLoop
  <2>1. CASE epoll_process_events \/ accept_done \/ noice_read_event_handler
    BY <2>1 DEF epoll_process_events, accept_done, noice_read_event_handler
  <2>2. CASE posted_done \/ timers_done \/ timer_read
    BY <2>2 DEF posted_done, timers_done, timer_read
  <2>3. ASSUME NEW c \in Conn, nn_conn_timer_handler(c)
        PROVE  UNCHANGED <<state, mempool, nodes>> \/ Finalizes(c)
    BY <2>3 DEF nn_conn_timer_handler, Finalizes, EventInv
  <2>4. ASSUME NEW c \in Conn, write_timer_expire(c)
        PROVE  UNCHANGED <<state, mempool, nodes>>
    BY <2>4 DEF write_timer_expire
  <2>5. ASSUME NEW c \in Conn, NEW e \in {"r", "w"}, event_process_posted(c, e)
        PROVE  UNCHANGED <<state, mempool, nodes>>
    BY <2>5 DEF event_process_posted
  <2> QED
    BY <1>1, <2>1, <2>2, <2>3, <2>4, <2>5 DEF EventLoop
<1>2. CASE ReadHandler
  <2>1. CASE nn_conn_recv \/ decode_busy \/ decode_again
    BY <2>1 DEF nn_conn_recv, decode_busy, decode_again
  <2>2. CASE recv_closed \/ decode_error
    <3>1. mc \in Conn /\ Finalizes(mc)
      BY <2>2 DEF recv_closed, decode_error, Finalizes, TypeInv, McInv, ControlInv, Handlers
    <3> QED
      BY <3>1
  <2> QED
    BY <1>2, <2>1, <2>2 DEF ReadHandler, MovesNode
<1>3. CASE WriteHandler
  <2>1. CASE nn_conn_write_handler \/ output_packed \/ output_empty
             \/ output_sent \/ output_again
    BY <2>1 DEF nn_conn_write_handler, output_packed, output_empty, output_sent, output_again
  <2>2. CASE write_timedout \/ output_error
    <3>1. mc \in Conn /\ Finalizes(mc)
      BY <2>2 DEF write_timedout, output_error, Finalizes, TypeInv, McInv, ControlInv, Handlers
    <3> QED
      BY <3>1
  <2> QED
    BY <1>3, <2>1, <2>2 DEF WriteHandler, MovesNode
<1>4. CASE ResponseHandler
  <2>1. CASE batch_done \/ response_done
    BY <2>1 DEF batch_done, response_done
  <2> QED
    BY <1>4, <2>1 DEF ResponseHandler, MovesNode
<1>5. CASE UNCHANGED vars
  BY <1>5 DEF vars
<1> QED
  BY <1>1, <1>2, <1>3, <1>4, <1>5 DEF Next, Cli, MovesNode

\* No step puts a node on a second list or drops it.
LEMMA NodesStep ==
  ASSUME IInv, [Next]_vars
  PROVE  NodesOnce'
<1>t. TypeOK /\ McInv /\ ControlInv /\ \A c \in Conn, n \in Node : NodeOnce(c, n)
  BY DEF IInv, TypeInv, NodesOnce
<1>1. CASE UNCHANGED nodes
  <2> SUFFICES ASSUME NEW d \in Conn, NEW m \in Node PROVE NodeOnce(d, m)'
    BY DEF NodesOnce
  <2>1. NodeOnce(d, m) /\ UNCHANGED <<free_task, out_task, tq, bque, batch, lost>>
    BY <1>1, <1>t DEF nodes
  <2> QED
    BY <2>1 DEF NodeOnce, Held
<1>2. ASSUME NEW c \in Conn, nn_conn_init(c) PROVE NodesOnce'
  BY <1>2, <1>1 DEF nn_conn_init, tasks, nodes
<1>3. ASSUME NEW c \in Conn, Finalizes(c) PROVE NodesOnce'
  <2>1. UNCHANGED <<tq, bque, batch, lost>>
    BY <1>3 DEF Finalizes
  <2>2. \A d \in Conn, m \in Node :
          /\ m \in free_task'[d] <=> m \in free_task[d] \/ (d = c /\ m \in out_task[d])
          /\ m \in out_task'[d] <=> m \in out_task[d] /\ d # c
    BY <1>3, <1>t DEF Finalizes, nn_conn_finalize, TypeOK
  <2> SUFFICES ASSUME NEW d \in Conn, NEW m \in Node PROVE NodeOnce(d, m)'
    BY DEF NodesOnce
  <2>3. NodeOnce(d, m)
    BY <1>t
  <2> QED
    BY <2>1, <2>2, <2>3 DEF NodeOnce, Held
<1>4. CASE pop_all
  <2>1. batch = {}
    BY <1>4, <1>t DEF pop_all, ControlInv, InBatch, Handlers
  <2>2. UNCHANGED <<free_task, out_task, tq, lost>> /\ batch' = bque[qi] /\ qi \in Queue
    BY <1>4 DEF pop_all, conn
  <2>3. bque'[qi] = {} /\ \A q \in Queue : q # qi => bque'[q] = bque[q]
    BY <1>4, <1>t DEF pop_all, TypeOK
  <2> SUFFICES ASSUME NEW d \in Conn, NEW m \in Node PROVE NodeOnce(d, m)'
    BY DEF NodesOnce
  <2>4. NodeOnce(d, m)
    BY <1>t
  <2> QED
    BY <2>1, <2>2, <2>3, <2>4 DEF NodeOnce, Held
<1>5. ASSUME NEW n \in Node, decode_dispatch(n) PROVE NodesOnce'
  <2>1. /\ UNCHANGED <<out_task, bque, batch, lost>>
        /\ mc \in Conn /\ n \in free_task[mc]
    BY <1>5, <1>t DEF decode_dispatch, McInv, Handlers
  <2>2. \A d \in Conn, m \in Node :
          /\ m \in free_task'[d] <=> m \in free_task[d] /\ ~(d = mc /\ m = n)
          /\ <<d, m>> \in tq' <=> <<d, m>> \in tq \/ (d = mc /\ m = n)
    BY <1>5, <1>t, <2>1 DEF decode_dispatch, TypeOK
  <2> SUFFICES ASSUME NEW d \in Conn, NEW m \in Node PROVE NodeOnce(d, m)'
    BY DEF NodesOnce
  <2>3. NodeOnce(d, m)
    BY <1>t
  <2> QED
    BY <2>1, <2>2, <2>3 DEF NodeOnce, Held
<1>6. ASSUME NEW n \in Node, output_pack(n) PROVE NodesOnce'
  <2>1. /\ UNCHANGED <<tq, bque, batch, lost>>
        /\ mc \in Conn /\ n \in out_task[mc]
    BY <1>6, <1>t DEF output_pack, McInv, Handlers, tasks
  <2>2. \A d \in Conn, m \in Node :
          /\ m \in free_task'[d] <=> m \in free_task[d] \/ (d = mc /\ m = n)
          /\ m \in out_task'[d] <=> m \in out_task[d] /\ ~(d = mc /\ m = n)
    BY <1>6, <1>t, <2>1 DEF output_pack, nn_conn_free_task, TypeOK
  <2> SUFFICES ASSUME NEW d \in Conn, NEW m \in Node PROVE NodeOnce(d, m)'
    BY DEF NodesOnce
  <2>3. NodeOnce(d, m)
    BY <1>t
  <2> QED
    BY <2>1, <2>2, <2>3 DEF NodeOnce, Held
<1>7. ASSUME NEW c \in Conn, NEW n \in Node, outtask_disconnected(c, n) PROVE NodesOnce'
  <2>1. UNCHANGED <<out_task, tq, bque, lost>> /\ <<c, n>> \in batch
    BY <1>7 DEF outtask_disconnected
  <2>2. \A d \in Conn, m \in Node :
          /\ <<d, m>> \in batch' <=> <<d, m>> \in batch /\ ~(d = c /\ m = n)
          /\ m \in free_task'[d] <=> m \in free_task[d] \/ (d = c /\ m = n)
    BY <1>7, <1>t DEF outtask_disconnected, nn_conn_free_task, TypeOK
  <2> SUFFICES ASSUME NEW d \in Conn, NEW m \in Node PROVE NodeOnce(d, m)'
    BY DEF NodesOnce
  <2>3. NodeOnce(d, m)
    BY <1>t
  <2> QED
    BY <2>1, <2>2, <2>3 DEF NodeOnce, Held
<1>8. ASSUME NEW c \in Conn, NEW n \in Node, nn_conn_outtask(c, n) PROVE NodesOnce'
  <2>1. UNCHANGED <<free_task, tq, bque, lost>> /\ <<c, n>> \in batch
    BY <1>8 DEF nn_conn_outtask
  <2>2. \A d \in Conn, m \in Node :
          /\ <<d, m>> \in batch' <=> <<d, m>> \in batch /\ ~(d = c /\ m = n)
          /\ m \in out_task'[d] <=> m \in out_task[d] \/ (d = c /\ m = n)
    BY <1>8, <1>t DEF nn_conn_outtask, TypeOK
  <2> SUFFICES ASSUME NEW d \in Conn, NEW m \in Node PROVE NodeOnce(d, m)'
    BY DEF NodesOnce
  <2>3. NodeOnce(d, m)
    BY <1>t
  <2> QED
    BY <2>1, <2>2, <2>3 DEF NodeOnce, Held
<1>9. ASSUME NEW c \in Conn, NEW n \in Node, TaskThread(c, n) PROVE NodesOnce'
  <2>1. CASE unknown_optype(c, n)
    <3>1. UNCHANGED <<free_task, out_task, batch, bque>> /\ <<c, n>> \in tq
      BY <2>1 DEF unknown_optype, conn
    <3>2. \A d \in Conn, m \in Node :
            /\ <<d, m>> \in tq' <=> <<d, m>> \in tq /\ ~(d = c /\ m = n)
            /\ <<d, m>> \in lost' <=> <<d, m>> \in lost \/ (d = c /\ m = n)
      BY <2>1 DEF unknown_optype
    <3> SUFFICES ASSUME NEW d \in Conn, NEW m \in Node PROVE NodeOnce(d, m)'
      BY DEF NodesOnce
    <3>3. NodeOnce(d, m)
      BY <1>t
    <3> QED
      BY <3>1, <3>2, <3>3 DEF NodeOnce, Held
  <2>2. ASSUME NEW q \in Queue, task_test(c, n, q) PROVE NodesOnce'
    <3>1. UNCHANGED <<free_task, out_task, batch, lost>> /\ <<c, n>> \in tq
      BY <2>2 DEF task_test, conn
    <3>2. \A d \in Conn, m \in Node :
            /\ <<d, m>> \in tq' <=> <<d, m>> \in tq /\ ~(d = c /\ m = n)
            /\ \A r \in Queue : <<d, m>> \in bque'[r] <=>
                 <<d, m>> \in bque[r] \/ (r = q /\ d = c /\ m = n)
      BY <2>2, <1>t DEF task_test, TypeOK
    <3> SUFFICES ASSUME NEW d \in Conn, NEW m \in Node PROVE NodeOnce(d, m)'
      BY DEF NodesOnce
    <3>3. NodeOnce(d, m)
      BY <1>t
    <3> QED
      BY <3>1, <3>2, <3>3 DEF NodeOnce, Held
  <2> QED
    BY <1>9, <2>1, <2>2 DEF TaskThread
<1> QED
  BY <1>1, <1>2, <1>3, <1>4, <1>5, <1>6, <1>7, <1>8, <1>9, StepKinds
     DEF IInv, MovesNode, nodes

\* Counting the nodes that are not in S.
LEMMA AwayCard ==
  ASSUME NEW S \in SUBSET Node
  PROVE  Cardinality(Node \ S) \in Nat /\ (Cardinality(Node \ S) = 0 <=> S = Node)
<1>1. IsFiniteSet(Node \ S) /\ Cardinality(Node \ S) \in Nat
  BY NodeCard
<1> QED
  BY <1>1, FS_EmptySet

\* Taking a node off free_task: one more is away.
LEMMA AwayLess ==
  ASSUME NEW S \in SUBSET Node, NEW n \in S
  PROVE  Cardinality(Node \ (S \ {n})) = Cardinality(Node \ S) + 1
<1>1. IsFiniteSet(Node \ S)
  BY NodeCard
<1>2. Node \ (S \ {n}) = (Node \ S) \cup {n} /\ n \notin Node \ S
  OBVIOUS
<1> QED
  BY <1>1, <1>2, FS_AddElement

\* Returning the nodes of T: as many fewer are away.
LEMMA AwayMore ==
  ASSUME NEW S \in SUBSET Node, NEW T \in SUBSET Node, S \cap T = {}
  PROVE  /\ S \cup T \in SUBSET Node
         /\ Cardinality(Node \ (S \cup T)) = Cardinality(Node \ S) - Cardinality(T)
<1>1. IsFiniteSet(Node \ S)
  BY NodeCard
<1>2. Node \ (S \cup T) = (Node \ S) \ T /\ (Node \ S) \cap T = T
  OBVIOUS
<1> QED
  BY <1>1, <1>2, FS_Difference

\* mc->count stays the number of nodes away, and the pool is destroyed by the
\* step that brings it to zero on a closed connection, and by no other.
LEMMA CountAndLifeStep ==
  ASSUME IInv, [Next]_vars
  PROVE  CountExact' /\ LifeInv'
<1>t. /\ TypeOK /\ McInv /\ ControlInv /\ NodesOnce
      /\ \A c \in Conn : count[c] = Cardinality(Node \ free_task[c])
      /\ LifeInv
  BY DEF IInv, TypeInv, CountExact
<1>f. \A c \in Conn : free_task[c] \in SUBSET Node /\ out_task[c] \in SUBSET Node
  BY <1>t DEF TypeOK
<1>1. CASE UNCHANGED <<state, mempool, count, free_task>>
  BY <1>1, <1>t DEF LifeInv, CountExact
<1>2. ASSUME NEW c \in Conn, nn_conn_init(c) PROVE CountExact' /\ LifeInv'
  <2>1. CountExact'
    BY <1>2, <1>t DEF nn_conn_init, CountExact
  <2>2. state[c] = "none" /\ free_task[c] = Node /\ free_task' = free_task
    BY <1>2, <1>t DEF nn_conn_init, LifeInv, TypeOK
  <2>3. LifeInv'
    BY <1>2, <1>t, <2>2 DEF nn_conn_init, LifeInv, TypeOK
  <2> QED
    BY <2>1, <2>3
<1>3. ASSUME NEW c \in Conn, Finalizes(c) PROVE CountExact' /\ LifeInv'
  <2> DEFINE left == count[c] - Cardinality(out_task[c])
  <2>1. free_task[c] \cap out_task[c] = {}
    BY <1>t, <1>f DEF NodesOnce, NodeOnce
  <2>2. /\ Cardinality(Node \ (free_task[c] \cup out_task[c])) = left
        /\ free_task[c] \cup out_task[c] \in SUBSET Node
    <3>1. free_task[c] \in SUBSET Node /\ out_task[c] \in SUBSET Node
      BY <1>f
    <3>2. count[c] = Cardinality(Node \ free_task[c])
      BY <1>t
    <3> QED
      BY <2>1, <3>1, <3>2, AwayMore
  <2>3. left \in Nat /\ (left = 0 <=> free_task[c] \cup out_task[c] = Node)
    BY <2>2, AwayCard
  <2>4. /\ count' = [count EXCEPT ![c] = left]
        /\ free_task' = [free_task EXCEPT ![c] = free_task[c] \cup out_task[c]]
        /\ state' = [state EXCEPT ![c] = "disconnected"]
        /\ mempool' = IF left > 0 THEN mempool ELSE pool_destroy(c)
        /\ mempool[c] = "live"
    BY <1>3, <1>t DEF Finalizes, nn_conn_finalize, LifeInv
  <2> HIDE DEF left
  <2>5. CountExact'
    BY <2>2, <2>4, <1>t DEF CountExact, TypeOK
  <2>6. mempool'[c] = IF left > 0 THEN "live" ELSE "destroyed"
    BY <2>4, <1>t DEF pool_destroy, TypeOK
  <2>7. \A d \in Conn : d # c =>
          mempool'[d] = mempool[d] /\ state'[d] = state[d] /\ free_task'[d] = free_task[d]
    BY <2>4, <1>t DEF pool_destroy, TypeOK
  <2>8. state'[c] = "disconnected" /\ free_task'[c] = free_task[c] \cup out_task[c]
    BY <2>4, <1>t DEF TypeOK
  <2>9. LifeInv'
    <3>1. left > 0 <=> free_task'[c] # Node
      BY <2>3, <2>8
    <3>2. mempool'[c] \in {"live", "destroyed"} /\ (mempool'[c] = "live" <=> free_task'[c] # Node)
      BY <3>1, <2>6
    <3> QED
      BY <3>2, <2>7, <2>8, <1>t DEF LifeInv
  <2> QED
    BY <2>5, <2>9
<1>4. ASSUME NEW n \in Node, decode_dispatch(n) PROVE CountExact' /\ LifeInv'
  <2>1. mc \in Conn /\ state[mc] = "connected" /\ n \in free_task[mc]
    BY <1>4, <1>t DEF decode_dispatch, McInv, ControlInv, Handlers
  <2>2. /\ count' = [count EXCEPT ![mc] = count[mc] + 1]
        /\ free_task' = [free_task EXCEPT ![mc] = free_task[mc] \ {n}]
        /\ UNCHANGED <<state, mempool>>
    BY <1>4 DEF decode_dispatch
  <2>3. Cardinality(Node \ (free_task[mc] \ {n})) = count[mc] + 1
    <3>1. free_task[mc] \in SUBSET Node /\ count[mc] = Cardinality(Node \ free_task[mc])
      BY <2>1, <1>t, <1>f
    <3> QED
      BY <2>1, <3>1, AwayLess
  <2>4. CountExact'
    BY <2>1, <2>2, <2>3, <1>t DEF CountExact, TypeOK
  <2>5. LifeInv'
    BY <2>1, <2>2, <1>t DEF LifeInv, TypeOK
  <2> QED
    BY <2>4, <2>5
<1>5. ASSUME NEW c \in Conn, NEW n \in Node, nn_conn_free_task(c, n), state' = state,
             n \notin free_task[c]
      PROVE  CountExact' /\ LifeInv'
  <2>1. /\ count' = [count EXCEPT ![c] = count[c] - 1]
        /\ free_task' = [free_task EXCEPT ![c] = free_task[c] \cup {n}]
        /\ mempool' = IF state[c] = "disconnected" /\ count[c] - 1 = 0
                      THEN pool_destroy(c) ELSE mempool
    BY <1>5 DEF nn_conn_free_task
  <2>2. /\ Cardinality(Node \ (free_task[c] \cup {n})) = count[c] - 1
        /\ free_task[c] \cup {n} \in SUBSET Node
    <3>1. /\ free_task[c] \in SUBSET Node /\ count[c] = Cardinality(Node \ free_task[c])
          /\ {n} \in SUBSET Node /\ free_task[c] \cap {n} = {}
      BY <1>5, <1>t, <1>f
    <3>2. Cardinality({n}) = 1
      BY FS_Singleton
    <3> QED
      BY <3>1, <3>2, AwayMore
  <2>3. count[c] - 1 = 0 <=> free_task[c] \cup {n} = Node
    BY <2>2, AwayCard
  <2>4. CountExact'
    BY <2>1, <2>2, <1>t DEF CountExact, TypeOK
  <2>5. free_task[c] # Node /\ state[c] # "none" /\ mempool[c] = "live"
    BY <1>5, <1>t DEF LifeInv, TypeOK
  <2>6. mempool'[c] = IF state[c] = "disconnected" /\ count[c] - 1 = 0 THEN "destroyed" ELSE "live"
    BY <2>1, <2>5, <1>t DEF pool_destroy, TypeOK
  <2>7. \A d \in Conn : d # c => mempool'[d] = mempool[d] /\ free_task'[d] = free_task[d]
    BY <2>1, <1>t DEF pool_destroy, TypeOK
  <2>8. free_task'[c] = free_task[c] \cup {n}
    BY <2>1, <1>t DEF TypeOK
  <2>9. LifeInv'
    BY <2>3, <2>5, <2>6, <2>7, <2>8, <1>5, <1>t DEF LifeInv
  <2> QED
    BY <2>4, <2>9
<1>6. ASSUME NEW n \in Node, output_pack(n) PROVE CountExact' /\ LifeInv'
  <2>1. mc \in Conn /\ n \in out_task[mc] /\ nn_conn_free_task(mc, n) /\ state' = state
    BY <1>6, <1>t DEF output_pack, McInv, Handlers
  <2>2. n \notin free_task[mc]
    BY <2>1, <1>t DEF NodesOnce, NodeOnce
  <2> QED
    BY <2>1, <2>2, <1>5
<1>7. ASSUME NEW c \in Conn, NEW n \in Node, outtask_disconnected(c, n)
      PROVE  CountExact' /\ LifeInv'
  <2>1. <<c, n>> \in batch /\ nn_conn_free_task(c, n) /\ state' = state
    BY <1>7 DEF outtask_disconnected
  <2>2. n \notin free_task[c]
    BY <2>1, <1>t DEF NodesOnce, NodeOnce
  <2> QED
    BY <2>1, <2>2, <1>5
<1>8. ASSUME NEW c \in Conn, NEW n \in Node, nn_conn_outtask(c, n) \/ TaskThread(c, n)
      PROVE  CountExact' /\ LifeInv'
  <2>1. UNCHANGED <<state, mempool, count, free_task>>
    BY <1>8 DEF nn_conn_outtask, TaskThread, task_test, unknown_optype, conn
  <2> QED
    BY <2>1, <1>1
<1>9. CASE pop_all
  BY <1>9, <1>1 DEF pop_all, conn
<1> QED
  BY <1>1, <1>2, <1>3, <1>4, <1>6, <1>7, <1>8, <1>9, StepKinds DEF IInv, MovesNode, nodes

\* Timers stay with open connections, and reading is never off without one.
LEMMA EventStep ==
  ASSUME IInv, [Next]_vars
  PROVE  EventInv'
<1>t. TypeOK /\ McInv /\ ControlInv /\ EventInv
  BY DEF IInv, TypeInv
<1>q. ASSUME UNCHANGED <<state, rev, wev, ev_timer>> PROVE EventInv'
  BY <1>q, <1>t DEF EventInv
<1>e. \A c \in Conn : rev[c] \in ReadEvent /\ wev[c] \in WriteEvent
  BY <1>t DEF TypeOK
<1>1. CASE epoll_process_events
  <2> PICK R \in SUBSET {c \in Conn : rev[c].active},
           W \in SUBSET {c \in Conn : wev[c].active} :
             /\ rev' = [c \in Conn |-> [rev[c] EXCEPT !.ready = @ \/ c \in R]]
             /\ wev' = [c \in Conn |-> [wev[c] EXCEPT !.ready = @ \/ c \in W]]
    BY <1>1 DEF epoll_process_events
  <2>1. \A c \in Conn :
          /\ rev'[c].active = rev[c].active /\ wev'[c].timer_set = wev[c].timer_set
          /\ ~rev[c].active /\ ~rev[c].ready => ~rev'[c].ready
    BY <1>e DEF ReadEvent, WriteEvent
  <2>2. state' = state /\ ev_timer' = ev_timer
    BY <1>1 DEF epoll_process_events, conn
  <2> QED
    BY <2>1, <2>2, <1>t DEF EventInv
<1>2. ASSUME NEW c \in Conn, nn_conn_init(c) PROVE EventInv'
  <2> PICK ok \in BOOLEAN :
         /\ state' = [state EXCEPT ![c] = IF ok THEN "connected" ELSE @]
         /\ rev' = [rev EXCEPT ![c].active = ok]
    BY <1>2 DEF nn_conn_init, CtlOk
  <2>1. /\ rev'[c].active = ok /\ state'[c] = IF ok THEN "connected" ELSE state[c]
        /\ \A d \in Conn : d # c => rev'[d] = rev[d] /\ state'[d] = state[d]
        /\ wev' = wev /\ ev_timer' = ev_timer
    BY <1>2, <1>t, <1>e DEF nn_conn_init, TypeOK, ReadEvent
  <2>2. mempool[c] = "none" /\ state[c] # "connected"
    BY <1>2 DEF IInv, LifeInv, nn_conn_init
  <2> QED
    BY <2>1, <2>2, <1>t DEF EventInv
<1>3. ASSUME NEW c \in Conn, Finalizes(c) PROVE EventInv'
  <2>1. state'[c] = "disconnected" /\ ev_timer'[c] = FALSE
    BY <1>3, <1>t DEF Finalizes, nn_conn_finalize, TypeOK
  <2>2. wev'[c].timer_set = FALSE
    BY <1>3, <1>t, <1>e DEF Finalizes, nn_conn_finalize, TypeOK, WriteEvent
  <2>3. \A d \in Conn : d # c => /\ state'[d] = state[d] /\ ev_timer'[d] = ev_timer[d]
                                 /\ rev'[d] = rev[d] /\ wev'[d] = wev[d]
    BY <1>3, <1>t DEF Finalizes, nn_conn_finalize, TypeOK
  <2> QED
    BY <2>1, <2>2, <2>3, <1>t DEF EventInv
<1>4. CASE decode_busy
  <2>1. mc \in Conn /\ state[mc] = "connected" /\ state' = state /\ wev' = wev
    BY <1>4, <1>t DEF decode_busy, McInv, ControlInv, Handlers, conn
  <2>2. /\ rev'[mc].ready = FALSE /\ ev_timer'[mc] = TRUE
        /\ \A d \in Conn : d # mc => rev'[d] = rev[d] /\ ev_timer'[d] = ev_timer[d]
    BY <1>4, <1>t, <2>1 DEF decode_busy, TypeOK
  <2> QED
    BY <2>1, <2>2, <1>t DEF EventInv
<1>5. CASE nn_conn_write_handler \/ output_sent \/ output_again
  <2>1. mc \in Conn /\ state[mc] = "connected" /\ UNCHANGED <<state, rev, ev_timer>>
    BY <1>5, <1>t DEF nn_conn_write_handler, output_sent, output_again, McInv, ControlInv,
                      Handlers, conn
  <2>2. \A d \in Conn : d # mc => wev'[d] = wev[d]
    BY <1>5, <1>t DEF nn_conn_write_handler, output_sent, output_again, TypeOK
  <2> QED
    BY <2>1, <2>2, <1>t DEF EventInv
<1>6. ASSUME NEW c \in Conn, nn_conn_timer_handler(c) PROVE EventInv'
  <2>1. CASE /\ ev_timer' = [ev_timer EXCEPT ![c] = FALSE]
             /\ rev' = [rev EXCEPT ![c].active = @ \/ ~rev[c].ready]
             /\ UNCHANGED <<state, wev>>
    <3>1. /\ rev'[c].active = (rev[c].active \/ ~rev[c].ready) /\ ev_timer'[c] = FALSE
          /\ \A d \in Conn : d # c => rev'[d] = rev[d] /\ ev_timer'[d] = ev_timer[d]
      BY <2>1, <1>t, <1>e DEF TypeOK, ReadEvent
    <3>2. state[c] = "connected" => rev'[c].active
      BY <3>1, <1>t DEF EventInv
    <3> QED
      BY <2>1, <3>1, <3>2, <1>t DEF EventInv
  <2>2. CASE nn_conn_finalize(c)
    <3>1. Finalizes(c)
      BY <1>6, <2>2, <1>t DEF nn_conn_timer_handler, Finalizes, EventInv, tasks
    <3> QED
      BY <3>1, <1>3
  <2> QED
    BY <1>6, <2>1, <2>2 DEF nn_conn_timer_handler, conn
<1>7. ASSUME NEW c \in Conn, write_timer_expire(c) PROVE EventInv'
  <2>1. /\ wev'[c].timer_set = FALSE /\ UNCHANGED <<state, rev, ev_timer>>
        /\ \A d \in Conn : d # c => wev'[d] = wev[d]
    BY <1>7, <1>t, <1>e DEF write_timer_expire, TypeOK, WriteEvent, conn
  <2> QED
    BY <2>1, <1>t DEF EventInv
<1>8. CASE recv_closed \/ decode_error \/ write_timedout \/ output_error
  <2>1. mc \in Conn /\ Finalizes(mc)
    BY <1>8, <1>t DEF recv_closed, decode_error, write_timedout, output_error, Finalizes,
                      McInv, ControlInv, Handlers, tasks
  <2> QED
    BY <2>1, <1>3
<1>9. CASE EventLoop
  <2> USE DEF conn, evs
  <2>1. CASE accept_done \/ noice_read_event_handler \/ posted_done \/ timers_done
    BY <2>1, <1>q DEF accept_done, noice_read_event_handler, posted_done, timers_done
  <2>2. CASE timer_read
    BY <2>2, <1>q DEF timer_read
  <2>3. ASSUME NEW c \in Conn, NEW e \in {"r", "w"}, event_process_posted(c, e)
        PROVE  EventInv'
    BY <2>3, <1>q DEF event_process_posted
  <2> QED
    BY <1>9, <1>1, <1>2, <1>6, <1>7, <2>1, <2>2, <2>3 DEF EventLoop
<1>10. CASE ReadHandler
  <2> USE DEF conn, evs
  <2>1. CASE nn_conn_recv \/ decode_again
    BY <2>1, <1>q DEF nn_conn_recv, decode_again
  <2>2. ASSUME NEW n \in Node, decode_dispatch(n) PROVE EventInv'
    BY <2>2, <1>q DEF decode_dispatch
  <2> QED
    BY <1>10, <1>4, <1>8, <2>1, <2>2 DEF ReadHandler
<1>11. CASE WriteHandler
  <2> USE DEF conn, evs
  <2>1. CASE output_packed \/ output_empty
    BY <2>1, <1>q DEF output_packed, output_empty
  <2>2. ASSUME NEW n \in Node, output_pack(n) PROVE EventInv'
    BY <2>2, <1>q DEF output_pack
  <2> QED
    BY <1>11, <1>5, <1>8, <2>1, <2>2 DEF WriteHandler
<1>12. CASE ResponseHandler
  <2>1. UNCHANGED <<state, rev, wev, ev_timer>>
    BY <1>12 DEF ResponseHandler, pop_all, batch_done, response_done, outtask_disconnected,
                 nn_conn_outtask, conn, evs
  <2> QED
    BY <2>1, <1>q
<1>13. ASSUME NEW c \in Conn, NEW n \in Node, TaskThread(c, n) PROVE EventInv'
  BY <1>13, <1>q DEF TaskThread, task_test, unknown_optype, conn, evs
<1>14. CASE UNCHANGED vars
  BY <1>14, <1>q DEF vars, conn, evs
<1> QED
  BY <1>9, <1>10, <1>11, <1>12, <1>13, <1>14 DEF Next, Cli

\* A handler is called on an open connection, or by the timer on a live pool, and
\* leaves no node in the batch behind.
LEMMA ControlStep ==
  ASSUME IInv, [Next]_vars
  PROVE  ControlInv'
<1>t. TypeOK /\ McInv /\ ControlInv /\ EventInv /\ LifeInv /\ LoopInv
  BY DEF IInv, TypeInv
<1>c. \A c \in Conn : state[c] = "connected" => mempool[c] = "live"
  BY <1>t DEF LifeInv
<1>r. ret \notin Handlers
  BY <1>t DEF TypeOK, Handlers
<1> USE DEF Handlers, InBatch
<1>1. CASE EventLoop
  <2> USE DEF conn, tasks, Goto, Call
  <2>b. pc \notin Handlers /\ pc # "batch" /\ batch = {}
    BY <1>1, <1>t DEF EventLoop, epoll_process_events, accept_done, noice_read_event_handler,
         posted_done, timers_done, timer_read, nn_conn_init,
         nn_conn_timer_handler, write_timer_expire, event_process_posted, ControlInv
  <2>n. batch' = {}
    BY <1>1, <2>b DEF EventLoop, epoll_process_events, accept_done, noice_read_event_handler,
         posted_done, timers_done, timer_read, nn_conn_init,
         nn_conn_timer_handler, write_timer_expire, event_process_posted
  <2>1. CASE epoll_process_events \/ accept_done \/ noice_read_event_handler
    BY <2>1, <2>n DEF epoll_process_events, accept_done, noice_read_event_handler, ControlInv
  <2>2. CASE posted_done \/ timers_done
    BY <2>2, <2>n DEF posted_done, timers_done, ControlInv
  <2>3. CASE timer_read
    BY <2>3, <2>n, <1>t DEF timer_read, ControlInv, LoopInv
  <2>4. ASSUME NEW c \in Conn, nn_conn_init(c) PROVE ControlInv'
    BY <2>4, <2>n DEF nn_conn_init, ControlInv, loop
  <2>5. ASSUME NEW c \in Conn, nn_conn_timer_handler(c) PROVE ControlInv'
    BY <2>5, <2>n, <1>t DEF nn_conn_timer_handler, ControlInv, EventInv
  <2>6. ASSUME NEW c \in Conn, write_timer_expire(c) PROVE ControlInv'
    BY <2>6, <2>n, <1>t DEF write_timer_expire, ControlInv, EventInv
  <2>7. ASSUME NEW c \in Conn, NEW e \in {"r", "w"}, event_process_posted(c, e)
        PROVE  ControlInv'
    BY <2>7, <2>n, <1>c DEF event_process_posted, ControlInv
  <2> QED
    BY <1>1, <2>1, <2>2, <2>3, <2>4, <2>5, <2>6, <2>7 DEF EventLoop
<1>2. ASSUME Return, UNCHANGED tasks, pc \in Handlers PROVE ControlInv'
  BY <1>2, <1>t, <1>r DEF Return, ControlInv, tasks
<1>3. CASE ReadHandler
  <2>1. CASE nn_conn_recv
    BY <2>1, <1>t, <1>c DEF nn_conn_recv, ControlInv, Goto, conn, tasks
  <2>2. CASE recv_closed \/ decode_busy \/ decode_error \/ decode_again
    BY <2>2, <1>2 DEF recv_closed, decode_busy, decode_error, decode_again
  <2>3. ASSUME NEW n \in Node, decode_dispatch(n) PROVE ControlInv'
    BY <2>3, <1>t DEF decode_dispatch, ControlInv, loop
  <2> QED
    BY <1>3, <2>1, <2>2, <2>3 DEF ReadHandler
<1>4. CASE WriteHandler
  <2>1. CASE output_packed \/ output_sent
    BY <2>1, <1>t DEF output_packed, output_sent, ControlInv, Goto, conn, tasks
  <2>2. CASE nn_conn_write_handler
    <3>1. CASE Goto("pack")
      BY <2>2, <3>1, <1>t DEF nn_conn_write_handler, ControlInv, Goto, conn, tasks
    <3> QED
      BY <2>2, <3>1, <1>2 DEF nn_conn_write_handler
  <2>3. CASE write_timedout \/ output_empty \/ output_again \/ output_error
    BY <2>3, <1>2 DEF write_timedout, output_empty, output_again, output_error
  <2>4. ASSUME NEW n \in Node, output_pack(n) PROVE ControlInv'
    BY <2>4, <1>t DEF output_pack, ControlInv, loop, tasks
  <2> QED
    BY <1>4, <2>1, <2>2, <2>3, <2>4 DEF WriteHandler
<1>5. CASE ResponseHandler
  <2>1. CASE pop_all \/ batch_done
    BY <2>1, <1>t DEF pop_all, batch_done, ControlInv, Goto, tasks
  <2>2. CASE response_done
    BY <2>2, <1>t DEF response_done, ControlInv, Goto, tasks
  <2>3. ASSUME NEW c \in Conn, NEW n \in Node, outtask_disconnected(c, n) PROVE ControlInv'
    BY <2>3 DEF outtask_disconnected, ControlInv, loop
  <2>4. ASSUME NEW c \in Conn, NEW n \in Node, nn_conn_outtask(c, n) PROVE ControlInv'
    BY <2>4 DEF nn_conn_outtask, ControlInv, Call
  <2> QED
    BY <1>5, <2>1, <2>2, <2>3, <2>4 DEF ResponseHandler
<1>6. ASSUME NEW c \in Conn, NEW n \in Node, TaskThread(c, n) PROVE ControlInv'
  BY <1>6, <1>t DEF TaskThread, task_test, unknown_optype, ControlInv, conn, loop
<1>7. CASE UNCHANGED vars
  BY <1>7, <1>t DEF vars, conn, tasks, loop, ControlInv
<1> QED
  BY <1>1, <1>3, <1>4, <1>5, <1>6, <1>7 DEF Next, Cli

\* Every handler leaves the output of its connection, and of the others, in order.
LEMMA OutputStep ==
  ASSUME IInv, [Next]_vars
  PROVE  OutputInv'
<1> DEFINE
  OutputFor(d) ==
    /\ mempool[d] = "none" => out[d] = 0 /\ out_task[d] = {} /\ ~wev[d].timedout
    /\ state[d] = "connected" => OutputOf(d)
  Same(d) ==
    /\ state'[d] = state[d]
    /\ mempool'[d] = "none" => mempool[d] = "none"
    /\ out'[d] = out[d] /\ out_task'[d] = out_task[d] /\ wev'[d] = wev[d]
  Idle(d) == mc = d => pc \notin {"write", "pack", "send"}
  KeepsPosted(d) == <<d, "w">> \in posted => <<d, "w">> \in posted'
<1>t. TypeOK /\ McInv /\ ControlInv /\ EventInv /\ LifeInv /\ LoopInv
  BY DEF IInv, TypeInv
<1>o. \A d \in Conn : OutputFor(d)
  BY DEF IInv, OutputInv
<1>e. \A d \in Conn : wev[d] \in WriteEvent
  BY <1>t DEF TypeOK
<1>r. ret \notin Handlers
  BY <1>t DEF TypeOK, Handlers
<1>s. SUFFICES \A d \in Conn : OutputFor(d)'
  BY DEF OutputInv
<1>i. ASSUME NEW d \in Conn, Same(d), Idle(d), KeepsPosted(d) PROVE OutputFor(d)'
  BY <1>i, <1>o DEF OutputOf, InOutput
<1>f. ASSUME NEW c \in Conn, nn_conn_finalize(c), posted' = posted,
             \A d \in Conn \ {c} : Idle(d), UNCHANGED out,
             state[c] = "connected"
      PROVE  \A d \in Conn : OutputFor(d)'
  <2>1. state'[c] = "disconnected" /\ mempool'[c] # "none"
    BY <1>f, <1>t DEF nn_conn_finalize, pool_destroy, TypeOK, LifeInv
  <2>2. ASSUME NEW d \in Conn \ {c} PROVE Same(d)
    BY <1>f, <1>t DEF nn_conn_finalize, pool_destroy, TypeOK
  <2> QED
    BY <2>1, <2>2, <1>i, <1>f
<1>1. CASE EventLoop
  <2>0. \A d \in Conn : Idle(d)
    BY <1>1 DEF EventLoop, epoll_process_events, accept_done, noice_read_event_handler,
         posted_done, timers_done, timer_read, nn_conn_init,
         nn_conn_timer_handler, write_timer_expire, event_process_posted
  <2>1. CASE epoll_process_events
    <3> PICK W \in SUBSET {c \in Conn : wev[c].active} :
             /\ wev' = [c \in Conn |-> [wev[c] EXCEPT !.ready = @ \/ c \in W]]
             /\ \A c \in W : <<c, "w">> \in posted'
      BY <2>1 DEF epoll_process_events
    <3>1. UNCHANGED <<state, mempool, out, out_task>> /\ pc = "epoll" /\ posted = {}
      BY <2>1, <1>t DEF epoll_process_events, conn, bufs, LoopInv
    <3>2. ASSUME NEW d \in Conn
          PROVE  /\ wev'[d].timedout = wev[d].timedout /\ wev'[d].active = wev[d].active
                 /\ wev'[d].ready => wev[d].ready \/ d \in W
      BY <1>e DEF WriteEvent
    <3> QED
      BY <3>1, <3>2, <2>0, <1>o DEF OutputOf, InOutput
  <2>2. CASE accept_done \/ noice_read_event_handler \/ posted_done \/ timers_done \/ timer_read
    <3>1. UNCHANGED <<state, mempool, out, out_task, wev, posted>>
      BY <2>2 DEF accept_done, noice_read_event_handler, posted_done, timers_done, timer_read,
                  Goto, conn, bufs, evs
    <3> QED
      BY <3>1, <2>0, <1>i
  <2>3. ASSUME NEW c \in Conn, nn_conn_init(c) PROVE \A d \in Conn : OutputFor(d)'
    <3>1. /\ mempool[c] = "none" /\ UNCHANGED <<out, out_task, wev, posted, pc, mc, ret>>
          /\ mempool'[c] # "none"
          /\ \A d \in Conn \ {c} : state'[d] = state[d] /\ mempool'[d] = mempool[d]
      BY <2>3, <1>t DEF nn_conn_init, TypeOK, bufs, loop
    <3>2. out[c] = 0 /\ out_task[c] = {} /\ ~wev[c].timedout
      BY <3>1, <1>o
    <3>3. OutputFor(c)'
      BY <3>1, <3>2 DEF OutputOf
    <3> QED
      BY <3>1, <3>3, <2>0, <1>i
  <2>4. ASSUME NEW c \in Conn, nn_conn_timer_handler(c) PROVE \A d \in Conn : OutputFor(d)'
    <3>1. CASE UNCHANGED <<conn, wev>>
      BY <3>1, <2>4, <2>0, <1>i DEF nn_conn_timer_handler, conn, bufs
    <3>2. CASE nn_conn_finalize(c)
      BY <3>2, <2>4, <2>0, <1>f, <1>t DEF nn_conn_timer_handler, bufs, EventInv
    <3> QED
      BY <2>4, <3>1, <3>2 DEF nn_conn_timer_handler
  <2>5. ASSUME NEW c \in Conn, write_timer_expire(c) PROVE \A d \in Conn : OutputFor(d)'
    <3>1. /\ UNCHANGED <<state, mempool, out, out_task, posted>>
          /\ pc = "timers" /\ pc' = "write" /\ mc' = c /\ ret' = "timers"
          /\ \A d \in Conn \ {c} : wev'[d] = wev[d]
      BY <2>5, <1>t DEF write_timer_expire, Call, conn, bufs, TypeOK
    <3>2. wev'[c].ready = wev[c].ready /\ wev'[c].active = wev[c].active
      BY <2>5, <1>t, <1>e DEF write_timer_expire, WriteEvent, TypeOK
    <3>3. mempool[c] # "none"
      BY <2>5, <1>t DEF write_timer_expire, EventInv, LifeInv
    <3>4. OutputFor(c)'
      BY <3>1, <3>2, <3>3, <2>0, <1>o DEF OutputOf, InOutput
    <3> QED
      BY <3>1, <3>4, <2>0, <1>i
  <2>6. ASSUME NEW c \in Conn, NEW e \in {"r", "w"}, event_process_posted(c, e)
        PROVE  \A d \in Conn : OutputFor(d)'
    <3>1. /\ UNCHANGED <<state, mempool, out, out_task, wev>>
          /\ \A d \in Conn \ {c} : KeepsPosted(d)
          /\ e = "r" => KeepsPosted(c)
          /\ e = "w" /\ state[c] = "connected" => pc' = "write" /\ mc' = c /\ ret' = "posted"
      BY <2>6 DEF event_process_posted, Call, conn, bufs, evs
    <3>2. OutputFor(c)'
      BY <3>1, <2>0, <1>i, <1>o DEF OutputOf, InOutput
    <3> QED
      BY <3>1, <3>2, <2>0, <1>i
  <2> QED
    BY <1>1, <2>1, <2>2, <2>3, <2>4, <2>5, <2>6 DEF EventLoop
<1>2. CASE ReadHandler
  <2>0. mc \in Conn /\ state[mc] = "connected" /\ \A d \in Conn : Idle(d)
    BY <1>2, <1>t DEF ReadHandler, nn_conn_recv, recv_closed, decode_busy, decode_error,
                      decode_again, decode_dispatch, McInv, ControlInv, Handlers
  <2>1. CASE nn_conn_recv \/ decode_busy \/ decode_again \/ \E n \in Node : decode_dispatch(n)
    <3>1. UNCHANGED <<state, mempool, out, out_task, wev, posted>>
      BY <2>1 DEF nn_conn_recv, decode_busy, decode_again, decode_dispatch, Return, Goto,
                  conn, bufs, evs, loop
    <3> QED
      BY <3>1, <2>0, <1>i
  <2>2. CASE recv_closed \/ decode_error
    BY <2>2, <2>0, <1>f DEF recv_closed, decode_error, Return, bufs
  <2> QED
    BY <1>2, <2>1, <2>2 DEF ReadHandler
<1>3. CASE WriteHandler
  <2>0. /\ mc \in Conn /\ state[mc] = "connected" /\ mempool[mc] = "live"
        /\ \A d \in Conn \ {mc} : Idle(d)
    BY <1>3, <1>t DEF WriteHandler, write_timedout, nn_conn_write_handler, output_packed,
         output_empty, output_sent, output_again, output_error, output_pack, McInv,
         ControlInv, LifeInv, Handlers
  <2>1. CASE write_timedout \/ output_error
    BY <2>1, <2>0, <1>f DEF write_timedout, output_error, Return, bufs
  <2>2. ASSUME UNCHANGED <<state, mempool, posted, mc>>, OutputOf(mc)',
               \A d \in Conn \ {mc} : /\ out'[d] = out[d] /\ out_task'[d] = out_task[d]
                                       /\ wev'[d] = wev[d]
        PROVE  \A d \in Conn : OutputFor(d)'
    <3>1. ASSUME NEW d \in Conn, d = mc PROVE OutputFor(d)'
      BY <3>1, <2>2, <2>0 DEF OutputOf, InOutput
    <3>2. ASSUME NEW d \in Conn \ {mc} PROVE OutputFor(d)'
      BY <3>2, <2>2, <2>0, <1>i
    <3> QED
      BY <3>1, <3>2
  <2>3. OutputOf(mc) /\ wev[mc] \in WriteEvent
    BY <2>0, <1>o, <1>e
  <2>4. CASE nn_conn_write_handler
    <3>1. /\ UNCHANGED <<state, mempool, out, out_task, posted, mc, ret>>
          /\ pc = "write" /\ ~wev[mc].timedout
          /\ \A d \in Conn \ {mc} : wev'[d] = wev[d]
          /\ pc' = "pack" \/ (pc' = ret /\ ~wev[mc].ready /\ out[mc] > 0)
      BY <2>4, <1>t DEF nn_conn_write_handler, output_blocked, Return, Goto, conn, bufs, TypeOK
    <3>2. /\ wev'[mc].ready = wev[mc].ready /\ wev'[mc].active = wev[mc].active
          /\ wev'[mc].timedout = wev[mc].timedout
      BY <2>4, <2>0, <2>3, <1>t DEF nn_conn_write_handler, WriteEvent, TypeOK
    <3>3. OutputOf(mc)'
      BY <3>1, <3>2, <2>3 DEF OutputOf, InOutput
    <3> QED
      BY <3>1, <3>3, <2>2
  <2>5. CASE output_packed
    <3>1. UNCHANGED <<state, mempool, out, out_task, wev, posted, mc, ret>>
          /\ pc = "pack" /\ pc' = "send"
      BY <2>5 DEF output_packed, Goto, conn, bufs, evs
    <3>2. OutputOf(mc)'
      BY <3>1, <2>3 DEF OutputOf, InOutput
    <3> QED
      BY <3>1, <3>2, <2>2
  <2>6. ASSUME NEW n \in Node, output_pack(n) PROVE \A d \in Conn : OutputFor(d)'
    <3>1. /\ UNCHANGED <<state, mempool, wev, posted, mc, ret, pc>> /\ pc = "pack"
          /\ \A d \in Conn \ {mc} : out'[d] = out[d] /\ out_task'[d] = out_task[d]
      BY <2>6, <2>0, <1>t DEF output_pack, nn_conn_free_task, loop, evs, TypeOK
    <3>2. OutputOf(mc)'
      BY <3>1, <2>3 DEF OutputOf, InOutput
    <3> QED
      BY <3>1, <3>2, <2>2
  <2>7. CASE output_empty
    <3>1. /\ UNCHANGED <<state, mempool, out, out_task, wev, posted, mc, ret>>
          /\ pc = "send" /\ out[mc] = 0 /\ out_task[mc] = {}
      BY <2>7, <1>t DEF output_empty, Return, conn, bufs, evs, LoopInv
    <3>2. OutputOf(mc)'
      BY <3>1, <2>3 DEF OutputOf, InOutput
    <3> QED
      BY <3>1, <3>2, <2>2
  <2>8. CASE output_sent
    <3>1. /\ UNCHANGED <<state, mempool, out_task, posted, mc, ret>>
          /\ pc = "send" /\ pc' = "pack"
          /\ \A d \in Conn \ {mc} : out'[d] = out[d] /\ wev'[d] = wev[d]
      BY <2>8, <1>t DEF output_sent, Goto, conn, TypeOK
    <3>2. wev'[mc].timedout = wev[mc].timedout
      BY <2>8, <2>0, <2>3, <1>t DEF output_sent, WriteEvent, TypeOK
    <3>3. OutputOf(mc)'
      BY <3>1, <3>2, <2>3 DEF OutputOf, InOutput
    <3> QED
      BY <3>1, <3>3, <2>2
  <2>9. CASE output_again
    <3> PICK left \in 1 .. out[mc], ok \in CtlOk :
          /\ out' = [out EXCEPT ![mc] = left]
          /\ wev' = [wev EXCEPT ![mc].ready = FALSE,
                                ![mc].active = wev[mc].active \/ ok,
                                ![mc].timer_set = @ \/ (wev[mc].active \/ ok)]
      BY <2>9 DEF output_again
    <3>1. /\ UNCHANGED <<state, mempool, out_task, posted, mc, ret>>
          /\ pc = "send" /\ pc' = ret
          /\ \A d \in Conn \ {mc} : out'[d] = out[d] /\ wev'[d] = wev[d]
      BY <2>9, <1>t DEF output_again, Return, conn, TypeOK
    <3>2. /\ wev'[mc].timedout = wev[mc].timedout /\ wev'[mc].ready = FALSE
          /\ wev'[mc].active = (wev[mc].active \/ ok)
      BY <2>0, <2>3, <1>t DEF WriteEvent, TypeOK
    <3>3. out[mc] \in Nat /\ out'[mc] > 0
      BY <2>0, <1>t, SizeAssumption DEF TypeOK, SizeAssumption
    <3>4. ok \/ EpollCtlFails
      BY SwitchAssumption DEF CtlOk, SwitchAssumption
    <3>5. OutputOf(mc)'
      BY <3>1, <3>2, <3>3, <3>4, <2>3 DEF OutputOf, InOutput
    <3> QED
      BY <3>1, <3>5, <2>2
  <2> QED
    BY <1>3, <2>1, <2>4, <2>5, <2>6, <2>7, <2>8, <2>9 DEF WriteHandler
<1>4. CASE ResponseHandler
  <2>0. \A d \in Conn : Idle(d)
    BY <1>4 DEF ResponseHandler, pop_all, batch_done, response_done, outtask_disconnected,
                nn_conn_outtask
  <2>1. CASE pop_all \/ batch_done \/ response_done
    <3>1. UNCHANGED <<state, mempool, out, out_task, wev, posted>>
      BY <2>1 DEF pop_all, batch_done, response_done, Goto, conn, bufs, evs
    <3> QED
      BY <3>1, <2>0, <1>i
  <2>2. ASSUME NEW c \in Conn, NEW n \in Node, outtask_disconnected(c, n)
        PROVE  \A d \in Conn : OutputFor(d)'
    <3>1. /\ UNCHANGED <<state, out, out_task, wev, posted>>
          /\ \A d \in Conn : mempool'[d] = "none" => mempool[d] = "none"
      BY <2>2, <1>t DEF outtask_disconnected, nn_conn_free_task, pool_destroy, bufs, evs, loop,
                        TypeOK
    <3> QED
      BY <3>1, <2>0, <1>i
  <2>3. ASSUME NEW c \in Conn, NEW n \in Node, nn_conn_outtask(c, n)
        PROVE  \A d \in Conn : OutputFor(d)'
    <3>1. /\ UNCHANGED <<state, mempool, out, wev, posted>>
          /\ mc' = c /\ state[c] = "connected"
          /\ \A d \in Conn \ {c} : out_task'[d] = out_task[d]
          /\ pc' = "pack" \/ (pc' = "batch" /\ ~wev[c].ready /\ out[c] > 0)
      BY <2>3, <1>t DEF nn_conn_outtask, output_blocked, Call, bufs, evs, TypeOK
    <3>2. mempool[c] = "live"
      BY <3>1, <1>t DEF LifeInv
    <3>3. OutputFor(c)'
      BY <3>1, <3>2, <2>0, <1>o DEF OutputOf, InOutput
    <3> QED
      BY <3>1, <3>3, <2>0, <1>i
  <2> QED
    BY <1>4, <2>1, <2>2, <2>3 DEF ResponseHandler
<1>5. ASSUME NEW c \in Conn, NEW n \in Node, TaskThread(c, n)
      PROVE  \A d \in Conn : OutputFor(d)'
  BY <1>5, <1>o DEF TaskThread, task_test, unknown_optype, conn, bufs, evs, loop, OutputOf, InOutput
<1>6. CASE UNCHANGED vars
  BY <1>6, <1>o DEF vars, conn, bufs, evs, loop, OutputOf, InOutput
<1> QED
  BY <1>1, <1>2, <1>3, <1>4, <1>5, <1>6 DEF Next, Cli

\* The posted events are done before the timers run, and a write handler that the
\* timers call cannot close the connection.
LEMMA LoopStep ==
  ASSUME IInv, [Next]_vars
  PROVE  LoopInv'
<1>t. TypeOK /\ McInv /\ ControlInv /\ EventInv /\ LoopInv
  BY DEF IInv, TypeInv
<1>o. \A c \in Conn : state[c] = "connected" => OutputOf(c)
  BY DEF IInv, OutputInv
<1>r. ret \notin Handlers
  BY <1>t DEF TypeOK, Handlers
<1> USE DEF Handlers
<1>q. ASSUME UNCHANGED <<state, out, out_task, posted, pc, mc, ret>> PROVE LoopInv'
  BY <1>q, <1>t DEF LoopInv, AtTimers
<1>b. ASSUME Return, pc \in Handlers, ret # "timer_read" \/ UNCHANGED state PROVE LoopInv'
  <2>1. ret = "timer_read" => pc \notin {"recv", "decode"} /\ state[mc] = "connected"
    BY <1>b, <1>t DEF LoopInv, ControlInv
  <2> QED
    BY <1>b, <1>r, <1>t, <2>1 DEF LoopInv, AtTimers, Return
<1>1. CASE EventLoop
  <2> USE DEF conn, bufs, loop, Goto, Call
  <2>1. CASE epoll_process_events \/ accept_done \/ noice_read_event_handler
    BY <2>1 DEF epoll_process_events, accept_done, noice_read_event_handler, LoopInv, AtTimers
  <2>2. CASE posted_done \/ timers_done
    BY <2>2, <1>t DEF posted_done, timers_done, LoopInv, AtTimers
  <2>3. CASE timer_read
    BY <2>3, <1>t DEF timer_read, LoopInv, AtTimers
  <2>4. ASSUME NEW c \in Conn, nn_conn_init(c) PROVE LoopInv'
    BY <2>4 DEF nn_conn_init, LoopInv, AtTimers
  <2>5. ASSUME NEW c \in Conn, nn_conn_timer_handler(c) PROVE LoopInv'
    BY <2>5, <1>t DEF nn_conn_timer_handler, LoopInv, AtTimers
  <2>6. ASSUME NEW c \in Conn, write_timer_expire(c) PROVE LoopInv'
    BY <2>6, <1>t DEF write_timer_expire, LoopInv, AtTimers
  <2>7. ASSUME NEW c \in Conn, NEW e \in {"r", "w"}, event_process_posted(c, e)
        PROVE  LoopInv'
    BY <2>7, <1>t DEF event_process_posted, LoopInv, AtTimers
  <2> QED
    BY <1>1, <2>1, <2>2, <2>3, <2>4, <2>5, <2>6, <2>7 DEF EventLoop
<1>2. CASE ReadHandler
  <2>0. pc \in {"recv", "decode"} /\ ret # "timer_read"
    BY <1>2, <1>t DEF ReadHandler, nn_conn_recv, recv_closed, decode_busy, decode_error,
                      decode_again, decode_dispatch, LoopInv
  <2>1. CASE nn_conn_recv
    BY <2>1, <2>0, <1>t DEF nn_conn_recv, Goto, LoopInv, AtTimers
  <2>2. CASE recv_closed \/ decode_busy \/ decode_error \/ decode_again
    BY <2>2, <2>0, <1>b DEF recv_closed, decode_busy, decode_error, decode_again
  <2>3. ASSUME NEW n \in Node, decode_dispatch(n) PROVE LoopInv'
    BY <2>3, <1>q DEF decode_dispatch, loop
  <2> QED
    BY <1>2, <2>1, <2>2, <2>3 DEF ReadHandler
<1>3. CASE WriteHandler
  <2>0. mc \in Conn /\ state[mc] = "connected" /\ OutputOf(mc) /\ out[mc] \in Nat
    <3>1. pc \in {"write", "pack", "send"}
      BY <1>3 DEF WriteHandler, write_timedout, nn_conn_write_handler, output_packed,
           output_empty, output_sent, output_again, output_error, output_pack
    <3>2. mc \in Conn /\ state[mc] = "connected"
      BY <3>1, <1>t DEF McInv, ControlInv
    <3>3. out[mc] \in Nat
      BY <3>2, <1>t, SizeAssumption DEF TypeOK, SizeAssumption
    <3> QED
      BY <3>2, <3>3, <1>o
  <2>1. CASE write_timedout
    BY <2>1, <2>0, <1>b DEF write_timedout, OutputOf
  <2>2. CASE output_error
    <3>1. pc = "send" /\ out[mc] > 0 /\ nn_conn_finalize(mc) /\ Return
      BY <2>2 DEF output_error
    <3>2. ret # "timer_read"
      BY <3>1, <2>0, <1>t DEF LoopInv
    <3> QED
      BY <3>1, <3>2, <1>b
  <2>3. CASE output_empty \/ output_again
    BY <2>3, <1>b DEF output_empty, output_again, conn
  <2>4. CASE nn_conn_write_handler
    <3>1. CASE Return
      BY <2>4, <3>1, <1>b DEF nn_conn_write_handler, conn
    <3>2. CASE ~output_blocked(mc) /\ Goto("pack")
      <4>1. ret = "timer_read" => posted = {} /\ out[mc] = 0 /\ out_task[mc] = {}
        BY <2>4, <3>2, <2>0, <1>t DEF nn_conn_write_handler, output_blocked, LoopInv, AtTimers,
                                      OutputOf, InOutput
      <4> QED
        BY <2>4, <3>2, <4>1, <1>t DEF nn_conn_write_handler, Goto, LoopInv, AtTimers, conn, bufs
    <3> QED
      BY <2>4, <3>1, <3>2 DEF nn_conn_write_handler
  <2>5. CASE output_packed
    <3>1. out[mc] = 0 => out_task[mc] = {}
      BY <2>5, SizeAssumption DEF output_packed, SizeAssumption
    <3> QED
      BY <2>5, <3>1, <1>t DEF output_packed, Goto, LoopInv, AtTimers, conn, bufs
  <2>6. CASE output_sent
    <3>1. ret # "timer_read"
      BY <2>6, <2>0, <1>t DEF output_sent, LoopInv
    <3> QED
      BY <2>6, <3>1, <1>t DEF output_sent, Goto, LoopInv, AtTimers
  <2>7. ASSUME NEW n \in Node, output_pack(n) PROVE LoopInv'
    <3>1. ret # "timer_read" /\ pc = "pack"
      BY <2>7, <1>t DEF output_pack, LoopInv
    <3> QED
      BY <2>7, <3>1, <1>t DEF output_pack, loop, LoopInv, AtTimers
  <2> QED
    BY <1>3, <2>1, <2>2, <2>3, <2>4, <2>5, <2>6, <2>7 DEF WriteHandler
<1>4. CASE ResponseHandler
  BY <1>4 DEF ResponseHandler, pop_all, batch_done, response_done, outtask_disconnected,
              nn_conn_outtask, Goto, Call, loop, LoopInv, AtTimers
<1>5. ASSUME NEW c \in Conn, NEW n \in Node, TaskThread(c, n) PROVE LoopInv'
  BY <1>5, <1>q DEF TaskThread, task_test, unknown_optype, conn, bufs, loop
<1>6. CASE UNCHANGED vars
  BY <1>6, <1>q DEF vars, conn, bufs, loop
<1> QED
  BY <1>1, <1>2, <1>3, <1>4, <1>5, <1>6 DEF Next, Cli

\* IInv is an invariant.
THEOREM Inductive == SafetySpec => []IInv
<1>1. Init => TypeInv
  BY TypeInit
<1>2. ASSUME Init
      PROVE  /\ ControlInv /\ EventInv /\ LifeInv
             /\ OutputInv /\ LoopInv /\ NodesOnce /\ CountExact
  <2> USE <1>2
  <2>4. OutputInv /\ LoopInv
    BY DEF Init, OutputInv, LoopInv, AtTimers, Handlers
  <2>1. ControlInv /\ EventInv /\ LifeInv
    BY DEF Init, ControlInv, EventInv, LifeInv, Handlers
  <2>2. NodesOnce
    BY DEF Init, NodesOnce, NodeOnce, Held
  <2>3. CountExact
    BY FS_EmptySet DEF Init, CountExact
  <2> QED
    BY <2>1, <2>2, <2>3, <2>4
<1>3. IInv /\ [Next]_vars => TypeInv'
  BY TypeStep DEF IInv
<1>4. IInv /\ [Next]_vars => IInv'
  BY <1>3, ControlStep, EventStep, CountAndLifeStep, NodesStep, OutputStep, LoopStep DEF IInv
<1> QED
  BY <1>1, <1>2, <1>4, PTL DEF SafetySpec, IInv

-----------------------------------------------------------------------------
(* What the invariant gives.                                                *)

\* The variables keep their types: the cli thread, its connections and the
\* task queues.
THEOREM TypeCorrect == SafetySpec => []TypeOK
<1>1. IInv => TypeOK
  BY DEF IInv, TypeInv
<1> QED
  BY <1>1, Inductive, PTL

\* mc->count is exact and no node is on two lists or on none, whatever the order
\* in which requests, answers, errors, timeouts and closes arrive.
THEOREM NodesAccounted == SafetySpec => [](CountExact /\ NodesConserved)
<1>1. ASSUME IInv PROVE NodesConserved
  <2> SUFFICES ASSUME NEW c \in Conn
        PROVE  /\ \A n \in Node : \E p \in DOMAIN Places(c) : n \in Places(c)[p]
               /\ \A p, r \in DOMAIN Places(c) : p # r => Places(c)[p] \cap Places(c)[r] = {}
               /\ \A q, r \in Queue : q # r => At(c, bque[q]) \cap At(c, bque[r]) = {}
    BY DEF NodesConserved
  <2>1. \A n \in Node : NodeOnce(c, n)
    BY <1>1 DEF IInv, NodesOnce
  <2>2. free_task[c] \in SUBSET Node /\ out_task[c] \in SUBSET Node
    BY <1>1 DEF IInv, TypeInv, TypeOK
  <2>3. DOMAIN Places(c) = {"free", "out", "tq", "batch", "lost", "bque"}
    BY DEF Places
  <2>4. /\ Places(c)["free"] = free_task[c] /\ Places(c)["out"] = out_task[c]
        /\ Places(c)["tq"] = At(c, tq) /\ Places(c)["batch"] = At(c, batch)
        /\ Places(c)["lost"] = At(c, lost)
        /\ Places(c)["bque"] = {n \in Node : Held(c, n)}
    BY DEF Places, Held
  <2>5. \A n \in Node : \E p \in DOMAIN Places(c) : n \in Places(c)[p]
    BY <2>1, <2>3, <2>4 DEF NodeOnce, At
  <2>6. ASSUME NEW p \in DOMAIN Places(c), NEW r \in DOMAIN Places(c), p # r,
               NEW n \in Node, n \in Places(c)[p], n \in Places(c)[r]
        PROVE  FALSE
    BY <2>1, <2>3, <2>4, <2>6 DEF NodeOnce, At
  <2>7. \A p \in DOMAIN Places(c) : Places(c)[p] \in SUBSET Node
    BY <2>2, <2>3, <2>4 DEF At
  <2>8. \A p, r \in DOMAIN Places(c) : p # r => Places(c)[p] \cap Places(c)[r] = {}
    BY <2>6, <2>7
  <2>9. \A q, r \in Queue : q # r => At(c, bque[q]) \cap At(c, bque[r]) = {}
    BY <2>1 DEF NodeOnce, At
  <2> QED
    BY <2>5, <2>8, <2>9
<1>2. IInv => CountExact /\ NodesConserved
  BY <1>1 DEF IInv
<1> QED
  BY <1>2, Inductive, PTL

\* No thread ever holds a node of a destroyed pool, and a pool is destroyed once:
\* by nn_conn_finalize, or by the nn_conn_free_task that brings the last node back.
THEOREM PoolOutlivesNodes == SafetySpec => [](NodesOnLivePool /\ PoolDestroyedOnce)
<1>1. ASSUME IInv PROVE NodesOnLivePool /\ PoolDestroyedOnce
  <2>1. \A c \in Conn : /\ free_task[c] \in SUBSET Node
                        /\ state[c] \in {"none", "connected", "disconnected"}
                        /\ count[c] = Cardinality(Node \ free_task[c])
    BY <1>1 DEF IInv, TypeInv, TypeOK, CountExact
  <2>2. \A c \in Conn : count[c] > 0 <=> free_task[c] # Node
    <3> SUFFICES ASSUME NEW c \in Conn PROVE count[c] > 0 <=> free_task[c] # Node
      OBVIOUS
    <3>1. free_task[c] \in SUBSET Node /\ count[c] = Cardinality(Node \ free_task[c])
      BY <2>1
    <3>2. count[c] \in Nat /\ (count[c] = 0 <=> free_task[c] = Node)
      BY <3>1, AwayCard
    <3> QED
      BY <3>2
  <2> QED
    BY <1>1, <2>1, <2>2 DEF IInv, LifeInv, NodesOnLivePool, PoolDestroyedOnce
<1> QED
  BY <1>1, Inductive, PTL

\* The handlers run on live pools of open connections (nn_conn_read_handler too,
\* when the timer calls it after the write handler), no timer outlives its
\* connection, and a connection with its reads off has the timer that turns them on.
THEOREM HandlersAndTimers ==
  SafetySpec => [](HandlerOnLivePool /\ NoUseAfterDestroy /\ TimersOnOpenConn /\ ReadArmed)
<1>1. ASSUME IInv
      PROVE  HandlerOnLivePool /\ NoUseAfterDestroy /\ TimersOnOpenConn /\ ReadArmed
  <2>1. pc \in Handlers \cup {"timer_read"} => mc \in Conn
    BY <1>1 DEF IInv, TypeInv, McInv
  <2> QED
    BY <1>1, <2>1 DEF IInv, ControlInv, EventInv, LifeInv, LoopInv, HandlerOnLivePool,
                      NoUseAfterDestroy, TimersOnOpenConn, ReadArmed, Handlers
<1> QED
  BY <1>1, Inductive, PTL

\* nn_conn_finalize destroys a pool once, and no node, handler or timer is left that
\* would use it.
THEOREM PoolOutlivesUsers == SafetySpec => []PoolLifetime
<1>1. /\ NodesOnLivePool /\ PoolDestroyedOnce
      /\ HandlerOnLivePool /\ NoUseAfterDestroy /\ TimersOnOpenConn /\ ReadArmed
      => PoolLifetime
  BY DEF PoolLifetime
<1> QED
  BY <1>1, PoolOutlivesNodes, HandlersAndTimers, PTL

\* A connection has its timer when its reads are off, and none once it is finalized.
THEOREM TimersFollowReads == SafetySpec => []TimersRight
<1>1. HandlerOnLivePool /\ NoUseAfterDestroy /\ TimersOnOpenConn /\ ReadArmed => TimersRight
  BY DEF TimersRight
<1> QED
  BY <1>1, HandlersAndTimers, PTL

\* As long as epoll_ctl does not fail, answers that are not sent yet wait behind
\* bytes in the out buffer for a write event that is in the epoll.
THEOREM AnswersWaitArmed ==
  ASSUME EpollCtlFails = FALSE
  PROVE  SafetySpec => []AnswersArmed
<1>1. IInv => AnswersArmed
  BY DEF IInv, OutputInv, OutputOf, InOutput, AnswersArmed
<1> QED
  BY <1>1, Inductive, PTL

-----------------------------------------------------------------------------
(* The handlers implement the contract of the pool.                         *)

phaseBar == [c \in Conn |-> Phase(c)]
busyBar == [c \in Conn |-> Node \ free_task[c]]

\* The phases in terms of the invariant.
LEMMA PhaseIs ==
  ASSUME TypeOK, LifeInv, NEW c \in Conn
  PROVE  /\ mempool[c] = "none" <=> Phase(c) = "none"
         /\ state[c] = "connected" <=> Phase(c) = "open"
         /\ state[c] = "disconnected" /\ mempool[c] = "live" <=> Phase(c) = "closing"
         /\ mempool[c] = "destroyed" <=> Phase(c) = "gone"
<1>1. /\ state[c] \in {"none", "connected", "disconnected"}
      /\ mempool[c] \in {"none", "live", "destroyed", "twice"}
  BY DEF TypeOK
<1> QED
  BY <1>1 DEF LifeInv, Phase

\* The same after a step.
LEMMA PhaseIsNext ==
  ASSUME TypeOK', LifeInv', NEW c \in Conn
  PROVE  /\ mempool'[c] = "none" <=> Phase(c)' = "none"
         /\ state'[c] = "connected" <=> Phase(c)' = "open"
         /\ state'[c] = "disconnected" /\ mempool'[c] = "live" <=> Phase(c)' = "closing"
         /\ mempool'[c] = "destroyed" <=> Phase(c)' = "gone"
<1>1. /\ state'[c] \in {"none", "connected", "disconnected"}
      /\ mempool'[c] \in {"none", "live", "destroyed", "twice"}
  BY DEF TypeOK
<1> QED
  BY <1>1 DEF LifeInv, Phase

\* A step that changes one connection changes one phase and one set of busy nodes.
LEMMA OneConn ==
  ASSUME TypeOK, TypeOK', NEW c \in Conn,
         \A d \in Conn : d # c => /\ state'[d] = state[d] /\ mempool'[d] = mempool[d]
                                  /\ free_task'[d] = free_task[d]
  PROVE  /\ phaseBar' = [phaseBar EXCEPT ![c] = Phase(c)']
         /\ busyBar' = [busyBar EXCEPT ![c] = Node \ free_task'[c]]
         /\ phaseBar[c] = Phase(c) /\ busyBar[c] = Node \ free_task[c]
<1>1. \A d \in Conn : d # c => Phase(d)' = Phase(d)
  BY DEF Phase
<1> QED
  BY <1>1 DEF phaseBar, busyBar

\* Every step is a step of the contract or leaves phases and busy nodes alone.
LEMMA ContractStep ==
  ASSUME IInv, IInv', [Next]_vars
  PROVE  Contract!Next \/ UNCHANGED <<phaseBar, busyBar>>
<1>t. TypeOK /\ McInv /\ ControlInv /\ LifeInv /\ NodesOnce /\ TypeOK' /\ LifeInv'
  BY DEF IInv, TypeInv
<1>n. ControlInv /\ EventInv /\ TypeInv
  BY DEF IInv
<1>1. ASSUME UNCHANGED <<state, mempool, free_task>>
      PROVE  UNCHANGED <<phaseBar, busyBar>>
  BY <1>1 DEF phaseBar, busyBar, Phase
<1>2. ASSUME NEW c \in Conn, nn_conn_init(c) PROVE Contract!Next
  <2>1. /\ mempool[c] = "none" /\ free_task' = free_task
        /\ state'[c] = "connected" \/ mempool'[c] = "destroyed"
        /\ \A d \in Conn : d # c => state'[d] = state[d] /\ mempool'[d] = mempool[d]
    BY <1>2, <1>t DEF nn_conn_init, TypeOK
  <2>2. Phase(c) = "none" /\ Phase(c)' \in {"open", "gone"}
    BY <2>1, <1>t, PhaseIs, PhaseIsNext
  <2>3. phaseBar' = [phaseBar EXCEPT ![c] = Phase(c)'] /\ phaseBar[c] = Phase(c)
    BY <2>1, <1>t, OneConn
  <2>4. busyBar' = busyBar
    BY <2>1 DEF busyBar
  <2>5. Contract!Open(c)
    BY <2>2, <2>3, <2>4 DEF Contract!Open, phaseBar, busyBar
  <2> QED
    BY <2>5 DEF Contract!Next
<1>3. ASSUME NEW n \in Node, decode_dispatch(n) PROVE Contract!Next
  <2>1. /\ mc \in Conn /\ state[mc] = "connected" /\ n \in free_task[mc]
        /\ UNCHANGED <<state, mempool>>
    BY <1>3, <1>t DEF decode_dispatch, McInv, ControlInv, Handlers
  <2>2. /\ free_task'[mc] = free_task[mc] \ {n}
        /\ \A d \in Conn : d # mc => free_task'[d] = free_task[d]
    BY <1>3, <1>t, <2>1 DEF decode_dispatch, TypeOK
  <2>3. /\ busyBar' = [busyBar EXCEPT ![mc] = Node \ free_task'[mc]]
        /\ phaseBar[mc] = Phase(mc) /\ busyBar[mc] = Node \ free_task[mc]
    BY <2>1, <2>2, <1>t, OneConn
  <2>4. Phase(mc) = "open" /\ phaseBar' = phaseBar
    BY <2>1, <1>t, PhaseIs DEF phaseBar, Phase
  <2>5. Node \ free_task'[mc] = (Node \ free_task[mc]) \cup {n}
    BY <2>1, <2>2
  <2>6. Contract!Acquire(mc, n)
    BY <2>1, <2>3, <2>4, <2>5 DEF Contract!Acquire, phaseBar, busyBar
  <2> QED
    BY <2>1, <2>6 DEF Contract!Next
<1>4. ASSUME NEW c \in Conn, NEW n \in Node, nn_conn_free_task(c, n), state' = state,
             n \notin free_task[c]
      PROVE  Contract!Next
  <2>1. /\ free_task'[c] = free_task[c] \cup {n}
        /\ \A d \in Conn : d # c => free_task'[d] = free_task[d] /\ mempool'[d] = mempool[d]
    BY <1>4, <1>t DEF nn_conn_free_task, pool_destroy, TypeOK
  <2>2. /\ phaseBar' = [phaseBar EXCEPT ![c] = Phase(c)']
        /\ busyBar' = [busyBar EXCEPT ![c] = Node \ free_task'[c]]
        /\ phaseBar[c] = Phase(c) /\ busyBar[c] = Node \ free_task[c]
    BY <2>1, <1>4, <1>t, OneConn
  <2>3. free_task[c] \in SUBSET Node /\ free_task[c] # Node
    BY <1>4, <1>t DEF TypeOK
  <2>4. \/ state[c] = "connected"
        \/ state[c] = "disconnected" /\ mempool[c] = "live"
    BY <2>3, <1>t DEF LifeInv, TypeOK
  <2>5. Phase(c) \in {"open", "closing"}
    BY <2>4, <1>t, PhaseIs
  <2>6. free_task'[c] = Node <=> Node \ free_task[c] = {n}
    BY <2>1, <2>3, <1>4
  <2>7. Phase(c)' = IF Phase(c) = "closing" /\ Node \ free_task[c] = {n} THEN "gone" ELSE Phase(c)
    <3>1. CASE state[c] = "connected"
      BY <3>1, <1>4, <1>t, PhaseIs, PhaseIsNext
    <3>2. CASE state[c] = "disconnected" /\ mempool[c] = "live"
      <4>1. state'[c] = "disconnected" /\ Phase(c) = "closing"
        BY <3>2, <1>4, <1>t, PhaseIs
      <4>2. mempool'[c] = IF free_task'[c] = Node THEN "destroyed" ELSE "live"
        BY <4>1, <1>t DEF LifeInv, TypeOK
      <4> QED
        BY <4>1, <4>2, <2>6, <1>t, PhaseIsNext
    <3> QED
      BY <2>4, <3>1, <3>2
  <2>8. Node \ free_task'[c] = (Node \ free_task[c]) \ {n} /\ n \in Node \ free_task[c]
    BY <2>1, <1>4
  <2>9. Contract!Release(c, n)
    BY <2>2, <2>5, <2>7, <2>8 DEF Contract!Release, phaseBar, busyBar
  <2> QED
    BY <2>9 DEF Contract!Next
<1>5. ASSUME NEW c \in Conn, Finalizes(c) PROVE Contract!Next
  <2>1. /\ free_task'[c] = free_task[c] \cup out_task[c] /\ state'[c] = "disconnected"
        /\ state[c] = "connected"
        /\ \A d \in Conn : d # c => /\ free_task'[d] = free_task[d] /\ state'[d] = state[d]
                                     /\ mempool'[d] = mempool[d]
    BY <1>5, <1>t DEF Finalizes, nn_conn_finalize, pool_destroy, TypeOK
  <2>2. /\ phaseBar' = [phaseBar EXCEPT ![c] = Phase(c)']
        /\ busyBar' = [busyBar EXCEPT ![c] = Node \ free_task'[c]]
        /\ phaseBar[c] = Phase(c) /\ busyBar[c] = Node \ free_task[c]
    BY <2>1, <1>t, OneConn
  <2>3. /\ free_task[c] \in SUBSET Node /\ out_task[c] \in SUBSET Node
        /\ \A m \in out_task[c] : m \notin free_task[c]
    BY <1>t DEF TypeOK, NodesOnce, NodeOnce
  <2>4. out_task[c] \subseteq Node \ free_task[c]
    BY <2>3
  <2>5. /\ Node \ free_task'[c] = (Node \ free_task[c]) \ out_task[c]
        /\ free_task'[c] = Node <=> Node \ free_task[c] = out_task[c]
    BY <2>1, <2>3, <2>4
  <2>6. Phase(c) = "open"
    BY <2>1, <1>t, PhaseIs
  <2>7. mempool'[c] = IF free_task'[c] = Node THEN "destroyed" ELSE "live"
    BY <2>1, <1>t DEF LifeInv, TypeOK
  <2>8. Phase(c)' = IF Node \ free_task[c] = out_task[c] THEN "gone" ELSE "closing"
    BY <2>1, <2>5, <2>7, <1>t, PhaseIsNext
  <2>9. PICK unsent \in SUBSET Node : unsent = out_task[c]
    BY <2>3
  <2>10. Contract!Close(c, unsent)
    BY <2>2, <2>4, <2>5, <2>6, <2>8, <2>9 DEF Contract!Close, phaseBar, busyBar
  <2> QED
    BY <2>10 DEF Contract!Next
<1>6. CASE MovesNode
  <2>1. ASSUME NEW n \in Node, output_pack(n) PROVE Contract!Next
    <3>1. mc \in Conn /\ n \in out_task[mc] /\ nn_conn_free_task(mc, n) /\ state' = state
      BY <2>1, <1>t DEF output_pack, McInv, Handlers
    <3>2. n \notin free_task[mc]
      BY <3>1, <1>t DEF NodesOnce, NodeOnce
    <3> QED
      BY <3>1, <3>2, <1>4
  <2>2. ASSUME NEW c \in Conn, NEW n \in Node, outtask_disconnected(c, n)
        PROVE  Contract!Next
    <3>1. <<c, n>> \in batch /\ nn_conn_free_task(c, n) /\ state' = state
      BY <2>2 DEF outtask_disconnected
    <3>2. n \notin free_task[c]
      BY <3>1, <1>t DEF NodesOnce, NodeOnce
    <3> QED
      BY <3>1, <3>2, <1>4
  <2>3. ASSUME NEW c \in Conn, NEW n \in Node, nn_conn_outtask(c, n) \/ TaskThread(c, n)
        PROVE  UNCHANGED <<state, mempool, free_task>>
    BY <2>3 DEF nn_conn_outtask, TaskThread, task_test, unknown_optype, conn
  <2>4. CASE pop_all
    BY <2>4, <1>1 DEF pop_all, conn
  <2> QED
    BY <1>6, <1>1, <1>3, <2>1, <2>2, <2>3, <2>4 DEF MovesNode
<1> QED
  BY <1>n, <1>1, <1>2, <1>5, <1>6, StepKinds DEF nodes

\* The cli thread's handlers implement ConnContract: nodes are handed out by an
\* open connection only, come back once, and the pool goes with the last of them.
THEOREM PoolContract == SafetySpec => ImplementsContract
<1>1. ASSUME Init PROVE Contract!Init
  BY <1>1 DEF Init, Contract!Init, Phase
<1>2. IInv /\ IInv' /\ [Next]_vars => [Contract!Next]_(Contract!vars)
  BY ContractStep DEF Contract!vars, phaseBar, busyBar
<1> QED
  BY <1>1, <1>2, Inductive, PTL DEF SafetySpec, ImplementsContract, Contract!Spec
=============================================================================
