----------------------------- MODULE NoticeQueue -----------------------------
(***************************************************************************)
(* The way threads hand tasks to each other: spin-locked task queues       *)
(* (nn_task_queue.cpp) and one notice, a non-blocking pipe whose read end  *)
(* is in the consumer's epoll (core/dfs_notice.cpp).                       *)
(*                                                                         *)
(* Two pairs use it.  The cli thread dispatches to the single queue tq of  *)
(* a task thread (dispatch_task / do_task_handler), and the task threads   *)
(* write back to the queues bque[0 .. queue_size-1] of the cli thread      *)
(* (write_back / net_response_handler).  RegisterFirst tells them apart:   *)
(* a task thread registers as initialised before it opens its notice, the  *)
(* cli thread afterwards.                                                  *)
(***************************************************************************)
EXTENDS Integers, Sequences

CONSTANTS
  Producer,       \* threads that push
  QueueSize,      \* number of queues behind the one notice
  QueueOf,        \* thread_id % queue_size: the queue each producer pushes to
  PipeCap,        \* bytes the pipe holds before write() fails with EAGAIN
  ReadSize,       \* NOTICE_BUFF_SIZE: bytes one read() takes at most
  MaxPush,        \* bound: tasks each producer pushes
  RegisterFirst   \* register_thread_initialized() before notice_init()

Queue == 1 .. QueueSize

ASSUME QueueAssumption ==
  /\ QueueSize \in Nat \ {0}
  /\ QueueOf \in [Producer -> Queue]
ASSUME PipeAssumption == PipeCap \in Nat \ {0} /\ ReadSize \in Nat \ {0}
ASSUME PushAssumption == MaxPush \in Nat
ASSUME OrderAssumption == RegisterFirst \in BOOLEAN

\* The k-th task a producer pushes.
Task == Producer \X (1 .. MaxPush)

VARIABLES
  qh,       \* qh[q]: the queue's list, head first
  pipe,     \* bytes in the notice's pipe
  open,     \* pipe_open() was called: pfd[] are the pipe's descriptors
  npush,    \* npush[p]: tasks the producer has pushed
  waking,   \* waking[p]: the producer is between push_task and notice_wake_up
  pc,       \* what the consumer thread is doing
  qi,       \* index of the queue net_response_handler is at
  batch,    \* list taken by pop_all and not handled yet, head first
  done      \* tasks handled

vars == <<qh, pipe, open, npush, waking, pc, qi, batch, done>>
consumer == <<pc, qi, batch, done>>
producer == <<npush, waking>>

Init ==
  /\ qh = [q \in Queue |-> << >>]
  /\ pipe = 0
  /\ open = FALSE
  /\ npush = [p \in Producer |-> 0]
  /\ waking = [p \in Producer |-> FALSE]
  /\ pc = IF RegisterFirst THEN "register" ELSE "notice_init"
  /\ qi = 1
  /\ batch = << >>
  /\ done = {}

-----------------------------------------------------------------------------
(* The consumer's start.  A consumer is known to the producers once it has  *)
(* registered: wait_for_thread_registration holds back the creation of the  *)
(* threads that push to it.                                                 *)

Registered == pc # "register" /\ (RegisterFirst \/ pc # "notice_init")

\* thread_task_cycle / thread_cli_cycle: me->state = OK; register.
register_thread_initialized ==
  /\ pc = "register"
  /\ pc' = IF RegisterFirst THEN "notice_init" ELSE "wait"
  /\ UNCHANGED <<qh, pipe, open, producer, qi, batch, done>>

\* notice_init: open the pipe and put its read end in the epoll.
notice_init ==
  /\ pc = "notice_init"
  /\ open' = TRUE
  /\ pc' = IF RegisterFirst THEN "wait" ELSE "register"
  /\ UNCHANGED <<qh, pipe, producer, qi, batch, done>>

-----------------------------------------------------------------------------
(* Producers: dispatch_task and write_back.                                 *)

\* push_task: insert at the head of the list, under the spin lock.
push_task(p) ==
  LET q == QueueOf[p] IN
  /\ Registered
  /\ ~waking[p] /\ npush[p] < MaxPush
  /\ qh' = [qh EXCEPT ![q] = << <<p, npush[p] + 1>> >> \o @]
  /\ npush' = [npush EXCEPT ![p] = @ + 1]
  /\ waking' = [waking EXCEPT ![p] = TRUE]
  /\ UNCHANGED <<pipe, open, consumer>>

\* notice_wake_up: write one byte.  A full pipe refuses it (EAGAIN is ignored),
\* and before notice_init pfd[1] is not the pipe's descriptor.
notice_wake_up(p) ==
  /\ waking[p]
  /\ pipe' = IF open /\ pipe < PipeCap THEN pipe + 1 ELSE pipe
  /\ waking' = [waking EXCEPT ![p] = FALSE]
  /\ UNCHANGED <<qh, open, npush, consumer>>

-----------------------------------------------------------------------------
(* The consumer: thread_event_process, noice_read_event_handler and the     *)
(* call_back (net_response_handler; do_task_handler has one queue).         *)

\* epoll_wait times out: nothing to read.
epoll_timeout == pc = "wait" /\ pipe = 0 /\ UNCHANGED vars

\* The read event of the pipe is reported (level triggered).
epoll_event ==
  /\ pc = "wait" /\ pipe > 0
  /\ pc' = "read"
  /\ UNCHANGED <<qh, pipe, open, producer, qi, batch, done>>

\* One read() of the loop.
notice_read ==
  /\ pc = "read" /\ pipe > 0
  /\ pipe' = IF pipe > ReadSize THEN pipe - ReadSize ELSE 0
  /\ UNCHANGED <<qh, open, producer, consumer>>

\* Mutant of notice_call_back: the loop over the queues goes on where it ended.
notice_call_back_no_reset ==
  /\ pc = "read" /\ pipe = 0
  /\ pc' = "pop"
  /\ UNCHANGED <<qh, pipe, open, producer, qi, batch, done>>

\* read() fails with EAGAIN: leave the loop, run the call_back.
notice_call_back ==
  /\ pc = "read" /\ pipe = 0
  /\ pc' = "pop" /\ qi' = 1
  /\ UNCHANGED <<qh, pipe, open, producer, batch, done>>

\* Mutant of pop_all: the list is walked and stays in the queue.
pop_all_keep ==
  /\ pc = "pop" /\ qi \in Queue
  /\ batch' = qh[qi]
  /\ pc' = "work"
  /\ UNCHANGED <<qh, pipe, open, producer, qi, done>>

\* pop_all: take the whole list, under the spin lock.
pop_all ==
  /\ pc = "pop" /\ qi \in Queue
  /\ batch' = qh[qi]
  /\ qh' = [qh EXCEPT ![qi] = << >>]
  /\ pc' = "work"
  /\ UNCHANGED <<pipe, open, producer, qi, done>>

\* One turn of the loop over the list that was taken: its head first.
handle_task ==
  /\ pc = "work" /\ batch # << >>
  /\ batch' = Tail(batch)
  /\ done' = done \cup {Head(batch)}
  /\ UNCHANGED <<qh, pipe, open, producer, pc, qi>>

\* The list is empty: next queue.
next_queue ==
  /\ pc = "work" /\ batch = << >>
  /\ qi' = qi + 1
  /\ pc' = "pop"
  /\ UNCHANGED <<qh, pipe, open, producer, batch, done>>

\* All queues were visited: back to the event loop.
call_back_return ==
  /\ pc = "pop" /\ qi \notin Queue
  /\ pc' = "wait"
  /\ UNCHANGED <<qh, pipe, open, producer, qi, batch, done>>

Consumer ==
  \/ register_thread_initialized \/ notice_init
  \/ epoll_timeout \/ epoll_event
  \/ notice_read \/ notice_call_back
  \/ pop_all \/ handle_task \/ next_queue \/ call_back_return

Next ==
  \/ Consumer
  \/ \E p \in Producer : push_task(p) \/ notice_wake_up(p)

\* Threads are scheduled: the consumer's loop goes on, and a producer that has
\* pushed goes on to the wake-up.  No producer is obliged to push.
Fairness ==
  /\ WF_vars(Consumer)
  /\ \A p \in Producer : WF_vars(notice_wake_up(p))

Spec == Init /\ [][Next]_vars /\ Fairness

SafetySpec == Init /\ [][Next]_vars
-----------------------------------------------------------------------------
Elems(s) == {s[i] : i \in DOMAIN s}

TypeOK ==
  /\ qh \in [Queue -> Seq(Task)]
  /\ pipe \in 0 .. PipeCap
  /\ open \in BOOLEAN
  /\ npush \in [Producer -> 0 .. MaxPush]
  /\ waking \in [Producer -> BOOLEAN]
  /\ pc \in {"register", "notice_init", "wait", "read", "pop", "work"}
  /\ qi \in 1 .. QueueSize + 1 /\ (pc = "work" => qi \in Queue)
  /\ batch \in Seq(Task)
  /\ done \in SUBSET Task

\* The consumer is going to pop queue q before it waits again.
WillPop(q) ==
  \/ pc = "read"
  \/ pc = "pop" /\ qi <= q
  \/ pc = "work" /\ qi < q

\* No lost wake-up: a queue that holds a task has a byte in the pipe, or a
\* producer that is about to write one, or a consumer that will still pop the
\* queue in this round (push before write, read until EAGAIN before pop_all).
NoLostWakeup ==
  \A q \in Queue : qh[q] # << >> =>
    pipe > 0 \/ (\E p \in Producer : waking[p]) \/ WillPop(q)

\* Tasks in a queue or in the batch the consumer works on.
Pending == (UNION {Elems(qh[q]) : q \in Queue}) \cup Elems(batch)

\* The queues, the pipe and the handler together implement a mailbox: what is
\* pushed is handled exactly once, whatever the interleaving.
Box == INSTANCE Mailbox WITH box <- Pending, handled <- done

\* Every pushed task is handled, once, and eventually (Mailbox with fairness).
DeliversEveryTask == Box!Spec
=============================================================================
