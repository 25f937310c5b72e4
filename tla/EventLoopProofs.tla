-------------------------- MODULE EventLoopProofs --------------------------
(***************************************************************************)
(* Proofs about what an event loop is woken for.  About NoticeQueue: the   *)
(* tasks of other threads are handed over once, for any number of          *)
(* producers, queues and pushes and any capacity of the pipe.  About       *)
(* ConnSlots: slots, registrations and posted events agree, for any number *)
(* of slots and clients.                                                   *)
(***************************************************************************)
EXTENDS NoticeQueue, ConnSlots, BasicFacts

\* The type invariant holds of every behaviour of the queues and the notice.
THEOREM TypeCorrect == SafetySpec => []TypeOK
<1> USE QueueAssumption, PipeAssumption, PushAssumption, OrderAssumption
    DEF QueueAssumption, PipeAssumption, PushAssumption, OrderAssumption
<1>1. Init => TypeOK
  <2> SUFFICES ASSUME Init PROVE TypeOK
    OBVIOUS
  <2>1. pc \in {"register", "notice_init"}
    BY DEF Init
  <2>2. << >> \in Seq(Task)
    OBVIOUS
  <2>3. qh \in [Queue -> Seq(Task)] /\ batch \in Seq(Task)
    BY <2>2 DEF Init
  <2>4. qi \in 1 .. QueueSize + 1 /\ pipe \in 0 .. PipeCap
    BY DEF Init
  <2>5. npush \in [Producer -> 0 .. MaxPush]
    BY DEF Init
  <2> QED
    BY <2>1, <2>3, <2>4, <2>5 DEF Init, TypeOK
<1>2. TypeOK /\ [Next]_vars => TypeOK'
  <2> SUFFICES ASSUME TypeOK, [Next]_vars PROVE TypeOK'
    OBVIOUS
  <2> USE DEF TypeOK
  <2>1. CASE register_thread_initialized
    BY <2>1 DEF register_thread_initialized, producer
  <2>2. CASE notice_init
    BY <2>2 DEF notice_init, producer
  <2>3. CASE epoll_timeout \/ epoll_event
    BY <2>3 DEF epoll_timeout, epoll_event, producer, vars
  <2>4. CASE notice_read
    BY <2>4 DEF notice_read, producer, consumer
  <2>5. CASE notice_call_back
    BY <2>5 DEF notice_call_back, producer, Queue
  <2>6. CASE pop_all
    BY <2>6 DEF pop_all, producer, Queue
  <2>7. CASE handle_task
    <3>1. batch' \in Seq(Task) /\ Head(batch) \in Task
      BY <2>7 DEF handle_task
    <3> QED
      BY <2>7, <3>1 DEF handle_task, producer
  <2>8. CASE next_queue
    <3>1. qi' \in 1 .. QueueSize + 1
      BY <2>8 DEF next_queue, Queue
    <3> QED
      BY <2>8, <3>1 DEF next_queue, producer
  <2>9. CASE call_back_return
    BY <2>9 DEF call_back_return, producer
  <2>10. ASSUME NEW p \in Producer, push_task(p) PROVE TypeOK'
    <3> DEFINE t == <<p, npush[p] + 1>>
    <3>1. t \in Task
      BY <2>10 DEF push_task, Task
    <3>2. <<t>> \o qh[QueueOf[p]] \in Seq(Task)
      BY <3>1
    <3> QED
      BY <2>10, <3>1, <3>2 DEF push_task, consumer
  <2>11. ASSUME NEW p \in Producer, notice_wake_up(p) PROVE TypeOK'
    BY <2>11 DEF notice_wake_up, consumer
  <2>12. CASE UNCHANGED vars
    BY <2>12 DEF vars
  <2> QED
    BY <2>1, <2>2, <2>3, <2>4, <2>5, <2>6, <2>7, <2>8, <2>9, <2>10, <2>11, <2>12
       DEF Next, Consumer
<1> QED
  BY <1>1, <1>2, PTL DEF SafetySpec

-----------------------------------------------------------------------------
(* No lost wake-up, for a consumer that opens its notice before it          *)
(* registers (the cli thread).  The strengthening: from then on the pipe is *)
(* open whenever a producer is about to write to it.                        *)

OpenBeforeUse ==
  /\ pc # "notice_init" => open
  /\ \A p \in Producer : waking[p] => open

WakeupInv == OpenBeforeUse /\ NoLostWakeup

\* A step of a producer or of the consumer preserves WakeupInv.
LEMMA WakeupStep ==
  ASSUME RegisterFirst = FALSE, TypeOK, WakeupInv, [Next]_vars
  PROVE  WakeupInv'
<1> USE QueueAssumption, PipeAssumption
    DEF QueueAssumption, PipeAssumption, WakeupInv, OpenBeforeUse, NoLostWakeup,
        WillPop
<1>1. CASE register_thread_initialized
  BY <1>1 DEF register_thread_initialized, producer
<1>2. CASE notice_init
  BY <1>2 DEF notice_init, producer
<1>3. CASE epoll_timeout \/ epoll_event
  BY <1>3 DEF epoll_timeout, epoll_event, producer, vars
<1>4. CASE notice_read
  BY <1>4 DEF notice_read, producer, consumer
<1>5. CASE notice_call_back
  BY <1>5 DEF notice_call_back, producer, Queue
<1>6. CASE pop_all
  <2>1. \A q \in Queue : qh'[q] # << >> => q # qi /\ qh[q] # << >>
    BY <1>6 DEF pop_all, TypeOK
  <2>2. \A q \in Queue : q # qi /\ WillPop(q) => WillPop(q)'
    BY <1>6 DEF pop_all, TypeOK, Queue
  <2> QED
    BY <1>6, <2>1, <2>2 DEF pop_all, producer
<1>7. CASE handle_task
  BY <1>7 DEF handle_task, producer
<1>8. CASE next_queue
  <2>1. \A q \in Queue : WillPop(q) => WillPop(q)'
    BY <1>8 DEF next_queue, TypeOK, Queue
  <2> QED
    BY <1>8, <2>1 DEF next_queue, producer
<1>9. CASE call_back_return
  <2>1. \A q \in Queue : ~WillPop(q)
    BY <1>9 DEF call_back_return, TypeOK, Queue
  <2> QED
    BY <1>9, <2>1 DEF call_back_return, producer
<1>10. ASSUME NEW p \in Producer, push_task(p) PROVE WakeupInv'
  <2>1. open /\ open'
    BY <1>10 DEF push_task, Registered
  <2>2. waking'[p]
    BY <1>10 DEF push_task, TypeOK
  <2> QED
    BY <1>10, <2>1, <2>2 DEF push_task, consumer
<1>11. ASSUME NEW p \in Producer, notice_wake_up(p) PROVE WakeupInv'
  <2>1. open /\ open'
    BY <1>11 DEF notice_wake_up
  <2>2. pipe' > 0
    BY <1>11, <2>1 DEF notice_wake_up, TypeOK
  <2> QED
    BY <1>11, <2>1, <2>2 DEF notice_wake_up, consumer, TypeOK
<1>12. CASE UNCHANGED vars
  BY <1>12 DEF vars
<1> QED
  BY <1>1, <1>2, <1>3, <1>4, <1>5, <1>6, <1>7, <1>8, <1>9, <1>10, <1>11, <1>12
     DEF Next, Consumer

\* A consumer that opens its notice before it registers (thread_cli_cycle) never
\* misses a wake-up: notice_wake_up may be refused by a full pipe, and the read
\* handler may empty the pipe at any time relative to a push, yet a queue that
\* holds a task is always going to be popped.
THEOREM NoWakeupIsLost ==
  ASSUME RegisterFirst = FALSE
  PROVE  SafetySpec => []NoLostWakeup
<1>1. Init => WakeupInv
  BY QueueAssumption DEF QueueAssumption, Init, WakeupInv, OpenBeforeUse, NoLostWakeup
<1>2. TypeOK /\ WakeupInv /\ [Next]_vars => WakeupInv'
  BY WakeupStep
<1>3. WakeupInv => NoLostWakeup
  BY DEF WakeupInv
<1> QED
  BY <1>1, <1>2, <1>3, TypeCorrect, PTL DEF SafetySpec

-----------------------------------------------------------------------------
(* Exactly once: the queues and the handler implement the mailbox.          *)

\* Inserting at the head of a list: its first element and the others.
LEMMA InsertHead ==
  ASSUME NEW S, NEW s \in Seq(S), NEW t \in S
  PROVE  /\ <<t>> \o s \in Seq(S)
         /\ DOMAIN (<<t>> \o s) = 1 .. Len(s) + 1
         /\ (<<t>> \o s)[1] = t
         /\ \A i \in DOMAIN s : (<<t>> \o s)[i + 1] = s[i]
         /\ \A i \in DOMAIN (<<t>> \o s) : i # 1 =>
              i - 1 \in DOMAIN s /\ (<<t>> \o s)[i] = s[i - 1]
         /\ Elems(<<t>> \o s) = {t} \cup Elems(s)
<1> DEFINE u == <<t>> \o s
<1>1. u \in Seq(S) /\ Len(u) = Len(s) + 1 /\ DOMAIN u = 1 .. Len(s) + 1
  OBVIOUS
<1>2. DOMAIN s = 1 .. Len(s) /\ Len(s) \in Nat
  OBVIOUS
<1>3. u[1] = t /\ \A i \in DOMAIN s : u[i + 1] = s[i]
  OBVIOUS
<1>4. \A i \in DOMAIN u : i # 1 => i - 1 \in DOMAIN s /\ u[i] = s[i - 1]
  <2> SUFFICES ASSUME NEW i \in 1 .. Len(s) + 1, i # 1
               PROVE  i - 1 \in DOMAIN s /\ u[i] = s[i - 1]
    BY <1>1
  <2>1. i - 1 \in DOMAIN s /\ (i - 1) + 1 = i
    BY <1>2
  <2> QED
    BY <2>1, <1>3
<1>5. \A i \in DOMAIN s : i + 1 \in DOMAIN u
  BY <1>1, <1>2
<1>6. 1 \in DOMAIN u
  BY <1>1, <1>2
<1>7. Elems(u) = {t} \cup Elems(s)
  <2> HIDE DEF u
  <2> QED
    BY <1>3, <1>4, <1>5, <1>6 DEF Elems
<1> QED
  BY <1>1, <1>3, <1>4, <1>7

\* Taking the head of a non-empty list.
LEMMA TakeHead ==
  ASSUME NEW S, NEW s \in Seq(S), s # << >>
  PROVE  /\ Tail(s) \in Seq(S) /\ Head(s) \in S /\ Head(s) = s[1]
         /\ 1 \in DOMAIN s
         /\ \A i \in DOMAIN Tail(s) : i + 1 \in DOMAIN s /\ Tail(s)[i] = s[i + 1]
         /\ Elems(s) = {Head(s)} \cup Elems(Tail(s))
<1> DEFINE u == Tail(s)
<1>1. u \in Seq(S) /\ Head(s) \in S /\ Head(s) = s[1]
  OBVIOUS
<1>2. Len(s) \in Nat /\ Len(s) >= 1 /\ DOMAIN s = 1 .. Len(s)
  OBVIOUS
<1>3. DOMAIN u = 1 .. Len(s) - 1
  BY <1>2
<1>4. \A i \in DOMAIN u : i + 1 \in DOMAIN s /\ u[i] = s[i + 1]
  BY <1>2, <1>3
<1>5. \A i \in DOMAIN s : i # 1 => i - 1 \in DOMAIN u /\ u[i - 1] = s[i]
  <2> SUFFICES ASSUME NEW i \in DOMAIN s, i # 1
               PROVE  i - 1 \in DOMAIN u /\ u[i - 1] = s[i]
    OBVIOUS
  <2>1. i - 1 \in DOMAIN u /\ (i - 1) + 1 = i
    BY <1>2, <1>3
  <2> QED
    BY <2>1, <1>4
<1>6. 1 \in DOMAIN s
  BY <1>2
<1>7. Elems(s) = {Head(s)} \cup Elems(u)
  <2> HIDE DEF u
  <2> QED
    BY <1>1, <1>4, <1>5, <1>6 DEF Elems
<1> QED
  BY <1>1, <1>4, <1>6, <1>7

\* No list holds a task twice, no two lists hold the same one, none that was
\* handled, and none that was not pushed yet; pop_all finds the batch empty.
OnceInv ==
  /\ pc # "work" => batch = << >>
  /\ \A q \in Queue : \A i, j \in DOMAIN qh[q] : qh[q][i] = qh[q][j] => i = j
  /\ \A i, j \in DOMAIN batch : batch[i] = batch[j] => i = j
  /\ \A q, r \in Queue : \A x \in Elems(qh[q]) : x \in Elems(qh[r]) => q = r
  /\ \A q \in Queue : \A x \in Elems(qh[q]) : x \notin Elems(batch) /\ x \notin done
  /\ \A x \in Elems(batch) : x \notin done
  /\ \A t \in Pending \cup done : t \in Task /\ t[2] <= npush[t[1]]

\* A push puts a task into the box that was never there.
LEMMA PushIsPut ==
  ASSUME TypeOK, OnceInv, NEW p \in Producer, push_task(p)
  PROVE  OnceInv' /\ Box!Put(<<p, npush[p] + 1>>) /\ <<p, npush[p] + 1>> \in Task
<1> USE QueueAssumption, PushAssumption DEF QueueAssumption, PushAssumption
<1> DEFINE t == <<p, npush[p] + 1>>
           q0 == QueueOf[p]
<1>1. t \in Task /\ npush[p] \in Nat /\ q0 \in Queue
  <2>1. npush[p] \in 0 .. MaxPush /\ npush[p] < MaxPush
    BY DEF push_task, TypeOK
  <2>2. npush[p] + 1 \in 1 .. MaxPush
    BY <2>1
  <2> QED
    BY <2>1, <2>2 DEF Task
<1>2. t \notin Pending \cup done
  BY <1>1 DEF OnceInv
<1>3. qh[q0] \in Seq(Task)
  BY <1>1 DEF TypeOK
<1>4. qh'[q0] = <<t>> \o qh[q0] /\ \A q \in Queue : q # q0 => qh'[q] = qh[q]
  BY <1>1 DEF push_task, TypeOK
<1>t. t[1] = p /\ t[2] = npush[p] + 1
  OBVIOUS
<1> HIDE DEF t, q0
<1>5. /\ Elems(qh'[q0]) = {t} \cup Elems(qh[q0])
      /\ qh'[q0][1] = t
      /\ \A i \in DOMAIN qh'[q0] : i # 1 =>
           i - 1 \in DOMAIN qh[q0] /\ qh'[q0][i] = qh[q0][i - 1]
  BY <1>1, <1>3, <1>4, InsertHead
<1>6. batch' = batch /\ done' = done /\ pc' = pc
  BY DEF push_task, consumer
<1>7. \A q \in Queue : t \notin Elems(qh[q])
  BY <1>2 DEF Pending
<1>8. t \notin Elems(batch) /\ t \notin done
  BY <1>2 DEF Pending
<1>9. Pending' = Pending \cup {t}
  <2>1. \A q \in Queue : Elems(qh'[q]) = IF q = q0 THEN {t} \cup Elems(qh[q]) ELSE Elems(qh[q])
    BY <1>4, <1>5
  <2>2. \A x : (\E q \in Queue : x \in Elems(qh'[q]))
                 <=> (\E q \in Queue : x \in Elems(qh[q])) \/ x = t
    BY <2>1, <1>1
  <2>3. \A x : x \in Pending' <=> (\E q \in Queue : x \in Elems(qh'[q])) \/ x \in Elems(batch)
    BY <1>6 DEF Pending
  <2>4. \A x : x \in Pending <=> (\E q \in Queue : x \in Elems(qh[q])) \/ x \in Elems(batch)
    BY DEF Pending
  <2> QED
    BY <2>2, <2>3, <2>4
<1>10. \A i, j \in DOMAIN qh'[q0] : qh'[q0][i] = qh'[q0][j] => i = j
  <2> SUFFICES ASSUME NEW i \in DOMAIN qh'[q0], NEW j \in DOMAIN qh'[q0],
                      qh'[q0][i] = qh'[q0][j]
               PROVE  i = j
    OBVIOUS
  <2>1. i \in Int /\ j \in Int
    BY <1>1, <1>3, <1>4, InsertHead
  <2>2. \A k \in DOMAIN qh'[q0] : k # 1 => qh'[q0][k] # t
    BY <1>5, <1>7, <1>1 DEF Elems
  <2>3. CASE i = 1 \/ j = 1
    BY <2>2, <2>3, <1>5
  <2>4. CASE i # 1 /\ j # 1
    <3>1. i - 1 = j - 1
      BY <2>4, <1>5, <1>1 DEF OnceInv
    <3> QED
      BY <3>1, <2>1
  <2> QED
    BY <2>3, <2>4
<1>11. npush' = [npush EXCEPT ![p] = @ + 1] /\ npush \in [Producer -> 0 .. MaxPush]
  BY DEF push_task, TypeOK
<1>12. \A u \in Pending' \cup done' : u \in Task /\ u[2] <= npush'[u[1]]
  <2>1. \A u \in Pending \cup done : u \in Task /\ u[2] <= npush'[u[1]]
    <3> SUFFICES ASSUME NEW u \in Pending \cup done
                 PROVE  u \in Task /\ u[2] <= npush'[u[1]]
      OBVIOUS
    <3>1. u \in Task /\ u[2] <= npush[u[1]] /\ u[1] \in Producer /\ u[2] \in Nat
      BY DEF OnceInv, Task
    <3> QED
      BY <3>1, <1>11
  <2>2. t[2] <= npush'[t[1]]
    BY <1>1, <1>11, <1>t
  <2> QED
    BY <2>1, <2>2, <1>1, <1>6, <1>9
<1>13. OnceInv'
  <2>1. \A q \in Queue : Elems(qh'[q]) = IF q = q0 THEN {t} \cup Elems(qh[q]) ELSE Elems(qh[q])
    BY <1>4, <1>5
  <2>2. \A q \in Queue : \A i, j \in DOMAIN qh'[q] : qh'[q][i] = qh'[q][j] => i = j
    BY <1>4, <1>10 DEF OnceInv
  <2>3. \A q, r \in Queue : \A x \in Elems(qh'[q]) : x \in Elems(qh'[r]) => q = r
    BY <2>1, <1>7 DEF OnceInv
  <2>4. \A q \in Queue : \A x \in Elems(qh'[q]) : x \notin Elems(batch) /\ x \notin done
    BY <2>1, <1>8 DEF OnceInv
  <2>5. /\ pc # "work" => batch = << >>
        /\ \A i, j \in DOMAIN batch : batch[i] = batch[j] => i = j
        /\ \A x \in Elems(batch) : x \notin done
    BY DEF OnceInv
  <2>6. Elems(batch') = Elems(batch) /\ Elems(batch)' = Elems(batch)
    BY <1>6
  <2> QED
    BY <2>2, <2>3, <2>4, <2>5, <2>6, <1>6, <1>12 DEF OnceInv
<1> QED
  BY <1>1, <1>2, <1>6, <1>9, <1>13 DEF Box!Put, t

\* Handling the head of the batch takes it out of the box.
LEMMA HandleIsHandle ==
  ASSUME TypeOK, OnceInv, handle_task
  PROVE  OnceInv' /\ Head(batch) \in Task /\ Box!Handle(Head(batch))
<1> DEFINE t == Head(batch)
           b == Tail(batch)
<1>1. batch \in Seq(Task) /\ batch # << >> /\ pc = "work"
  BY DEF TypeOK, handle_task
<1>2. /\ t \in Task /\ t = batch[1] /\ 1 \in DOMAIN batch
      /\ \A i \in DOMAIN b : i + 1 \in DOMAIN batch /\ b[i] = batch[i + 1]
      /\ Elems(batch) = {t} \cup Elems(b)
      /\ b \in Seq(Task)
  BY <1>1, TakeHead
<1>3. /\ qh' = qh /\ npush' = npush /\ pc' = pc /\ batch' = b
      /\ done' = done \cup {t}
  BY DEF handle_task, producer
<1> HIDE DEF t, b
<1>4. \A i \in DOMAIN b : i \in Nat /\ i >= 1
  BY <1>2
<1>5. t \notin Elems(b)
  <2>1. \A i \in DOMAIN b : b[i] # t
    BY <1>2, <1>4 DEF OnceInv
  <2> QED
    BY <2>1 DEF Elems
<1>6. \A i, j \in DOMAIN b : b[i] = b[j] => i = j
  <2> SUFFICES ASSUME NEW i \in DOMAIN b, NEW j \in DOMAIN b, b[i] = b[j]
               PROVE  i = j
    OBVIOUS
  <2>1. i + 1 = j + 1
    BY <1>2 DEF OnceInv
  <2> QED
    BY <2>1, <1>4
<1>7. t \in Elems(batch) /\ t \notin done /\ \A q \in Queue : t \notin Elems(qh[q])
  BY <1>2 DEF OnceInv
<1>8. /\ \A x : x \in Pending <=> (\E q \in Queue : x \in Elems(qh[q])) \/ x \in Elems(batch)
      /\ \A x : x \in Pending' <=> (\E q \in Queue : x \in Elems(qh[q])) \/ x \in Elems(b)
  BY <1>3 DEF Pending
<1>9. t \in Pending /\ Pending' = Pending \ {t}
  BY <1>2, <1>5, <1>7, <1>8
<1>10. \A q \in Queue : \A x \in Elems(qh[q]) : x \notin Elems(b) /\ x \notin done \cup {t}
  BY <1>2, <1>7 DEF OnceInv
<1>11. \A x \in Elems(b) : x \notin done \cup {t}
  BY <1>2, <1>5 DEF OnceInv
<1>12. \A u \in Pending' \cup done' : u \in Task /\ u[2] <= npush[u[1]]
  BY <1>3, <1>9 DEF OnceInv
<1>13. Elems(batch)' = Elems(b) /\ pc' = "work"
  BY <1>1, <1>3
<1>14. /\ \A q \in Queue : \A i, j \in DOMAIN qh[q] : qh[q][i] = qh[q][j] => i = j
       /\ \A q, r \in Queue : \A x \in Elems(qh[q]) : x \in Elems(qh[r]) => q = r
  BY DEF OnceInv
<1>15. OnceInv'
  BY <1>3, <1>6, <1>10, <1>11, <1>12, <1>13, <1>14 DEF OnceInv
<1> QED
  BY <1>2, <1>3, <1>9, <1>15 DEF Box!Handle, t

\* pop_all moves a list from its queue to the batch: the box does not change.
LEMMA PopIsStutter ==
  ASSUME TypeOK, OnceInv, pop_all
  PROVE  OnceInv' /\ UNCHANGED Box!vars
<1>1. /\ qi \in Queue /\ batch = << >> /\ batch' = qh[qi] /\ pc' = "work"
      /\ done' = done /\ npush' = npush
  BY DEF pop_all, OnceInv, producer
<1>2. qh'[qi] = << >> /\ \A q \in Queue : q # qi => qh'[q] = qh[q]
  BY <1>1 DEF pop_all, TypeOK
<1>3. Elems(<< >>) = {}
  BY DEF Elems
<1>4. /\ \A q \in Queue : Elems(qh'[q]) = IF q = qi THEN {} ELSE Elems(qh[q])
      /\ Elems(batch) = {} /\ Elems(batch)' = Elems(qh[qi])
  BY <1>1, <1>2, <1>3
<1>5. /\ \A x : x \in Pending <=> (\E q \in Queue : x \in Elems(qh[q])) \/ x \in Elems(batch)
      /\ \A x : x \in Pending' <=> (\E q \in Queue : x \in Elems(qh'[q])) \/ x \in Elems(batch)'
  BY DEF Pending
<1>6. Pending' = Pending
  BY <1>1, <1>4, <1>5
<1>7. \A q \in Queue : \A i, j \in DOMAIN qh'[q] : qh'[q][i] = qh'[q][j] => i = j
  <2>1. \A i, j \in DOMAIN << >> : << >>[i] = << >>[j] => i = j
    OBVIOUS
  <2> QED
    BY <1>2, <2>1 DEF OnceInv
<1>8. \A i, j \in DOMAIN batch' : batch'[i] = batch'[j] => i = j
  BY <1>1 DEF OnceInv
<1>9. \A q, r \in Queue : \A x \in Elems(qh'[q]) : x \in Elems(qh'[r]) => q = r
  BY <1>4 DEF OnceInv
<1>10. \A q \in Queue : \A x \in Elems(qh'[q]) : x \notin Elems(batch)' /\ x \notin done
  BY <1>1, <1>4 DEF OnceInv
<1>11. \A x \in Elems(batch)' : x \notin done
  BY <1>1, <1>4 DEF OnceInv
<1>12. \A u \in Pending' \cup done' : u \in Task /\ u[2] <= npush'[u[1]]
  BY <1>1, <1>6 DEF OnceInv
<1>13. OnceInv'
  BY <1>1, <1>7, <1>8, <1>9, <1>10, <1>11, <1>12 DEF OnceInv
<1> QED
  BY <1>1, <1>6, <1>13 DEF Box!vars

\* The other steps leave the lists and the handled tasks alone.
LEMMA OtherIsStutter ==
  ASSUME OnceInv, UNCHANGED <<qh, npush, batch, done>>,
         pc' # "work" => pc # "work" \/ batch = << >>
  PROVE  OnceInv' /\ UNCHANGED Box!vars
<1>1. Pending' = Pending
  BY DEF Pending
<1>2. pc' # "work" => batch' = << >>
  BY DEF OnceInv
<1>3. \A u \in Pending' \cup done' : u \in Task /\ u[2] <= npush'[u[1]]
  BY <1>1 DEF OnceInv
<1>4. OnceInv'
  BY <1>2, <1>3 DEF OnceInv
<1> QED
  BY <1>1, <1>4 DEF Box!vars

\* Every step is a step of the mailbox or leaves it as it is.
LEMMA BoxStep ==
  ASSUME TypeOK, OnceInv, [Next]_vars
  PROVE  OnceInv' /\ [Box!Next]_(Box!vars)
<1>1. ASSUME NEW p \in Producer, push_task(p)
      PROVE  OnceInv' /\ Box!Next
  BY <1>1, PushIsPut DEF Box!Next
<1>2. CASE handle_task
  BY <1>2, HandleIsHandle DEF Box!Next
<1>3. CASE pop_all
  BY <1>3, PopIsStutter
<1>4. ASSUME NEW p \in Producer, notice_wake_up(p)
      PROVE  OnceInv' /\ UNCHANGED Box!vars
  <2>1. UNCHANGED <<qh, npush, batch, done, pc>>
    BY <1>4 DEF notice_wake_up, consumer
  <2> QED
    BY <2>1, OtherIsStutter
<1>5. CASE register_thread_initialized \/ notice_init \/ epoll_event
  <2>1. UNCHANGED <<qh, npush, batch, done>> /\ pc # "work"
    BY <1>5 DEF register_thread_initialized, notice_init, epoll_event, producer
  <2> QED
    BY <2>1, OtherIsStutter
<1>6. CASE notice_read \/ notice_call_back \/ call_back_return
  <2>1. UNCHANGED <<qh, npush, batch, done>> /\ pc # "work"
    BY <1>6 DEF notice_read, notice_call_back, call_back_return, producer, consumer
  <2> QED
    BY <2>1, OtherIsStutter
<1>7. CASE next_queue
  <2>1. UNCHANGED <<qh, npush, batch, done>> /\ batch = << >>
    BY <1>7 DEF next_queue, producer
  <2> QED
    BY <2>1, OtherIsStutter
<1>8. CASE epoll_timeout \/ UNCHANGED vars
  <2>1. UNCHANGED <<qh, npush, batch, done, pc>>
    BY <1>8 DEF epoll_timeout, vars
  <2> QED
    BY <2>1, OtherIsStutter
<1> QED
  BY <1>1, <1>2, <1>3, <1>4, <1>5, <1>6, <1>7, <1>8 DEF Next, Consumer

\* The queues, the notice and the handler hand over every task at most once,
\* and never one that was not pushed: push_task, pop_all and the loops of
\* net_response_handler and do_task_handler implement the mailbox.
THEOREM HandsOverOnce == SafetySpec => Box!SafetySpec
<1>1. Init => OnceInv /\ Box!Init
  <2> SUFFICES ASSUME Init PROVE OnceInv /\ Box!Init
    OBVIOUS
  <2>1. Elems(<< >>) = {}
    BY DEF Elems
  <2>2. Pending = {}
    BY <2>1 DEF Init, Pending
  <2>3. \A i, j \in DOMAIN << >> : << >>[i] = << >>[j] => i = j
    OBVIOUS
  <2> QED
    BY <2>1, <2>2, <2>3 DEF Init, OnceInv, Box!Init
<1>2. TypeOK /\ OnceInv /\ [Next]_vars => OnceInv' /\ [Box!Next]_(Box!vars)
  BY BoxStep
<1> QED
  BY <1>1, <1>2, TypeCorrect, PTL DEF SafetySpec, Box!SafetySpec

-----------------------------------------------------------------------------
ConnTypes ==
  /\ client \in [Client -> {"away", "backlog", "served", "closed"}]
  /\ fd \in [Slot -> Client \cup {NoFd}]
  /\ instance \in [Slot -> {0, 1}]
  /\ active \in [Slot -> SUBSET Ev]
  /\ free \in Seq(Slot)
  /\ interest \in [Client -> [slot : Slot \cup {NoFd}, instance : {0, 1}, mask : SUBSET Ev]]

Open == {s \in Slot : fd[s] # NoFd}

\* A served client has one slot, and a slot's client is served.
Served ==
  /\ \A s \in Slot : fd[s] # NoFd => client[fd[s]] = "served"
  /\ \A s, t \in Slot : fd[s] # NoFd /\ fd[s] = fd[t] => s = t
  /\ \A k \in Client : client[k] = "served" => \E s \in Slot : fd[s] = k

\* The registrations and the active bits, one for the other.
Armed ==
  /\ \A k \in Client : interest[k] # None =>
       /\ interest[k].slot \in Slot /\ fd[interest[k].slot] = k
       /\ interest[k].instance = instance[interest[k].slot]
       /\ interest[k].mask = active[interest[k].slot] /\ interest[k].mask # {}
  /\ \A s \in Slot : active[s] # {} =>
       fd[s] \in Client /\ interest[fd[s]] # None /\ interest[fd[s]].slot = s

\* The queue is filled while no slot changes hands and is empty before the next turn.
\* While it is filled its events are of clients reported already.
PostedQueue ==
  /\ posted \in Seq(Slot \X Ev \X {0, 1} \X Client) /\ reported \subseteq Client
  /\ turn \in {"wait", "accept", "posted", "timers"}
  /\ PostedForItsConn
  /\ \A i \in DOMAIN posted :
       /\ turn \in {"wait", "accept"} => fd[posted[i][1]] = posted[i][4]
       /\ turn = "wait" => posted[i][4] \in reported
  /\ turn = "timers" => posted = <<>>

Conns == ConnTypes /\ SlotsConserved /\ Served /\ Armed
ConnInv == Conns /\ PostedQueue

-----------------------------------------------------------------------------
-----------------------------------------------------------------------------
\* Closing an open slot gives it back: the pool, the descriptors and the epoll forget
\* the connection together.
LEMMA CloseConns ==
  ASSUME Conns, NEW s \in Slot, fd[s] # NoFd, nn_conn_close(s)
  PROVE  Conns'
<1> USE DEF Conns
<1>k. PICK k \in Client : fd[s] = k /\ k # NoFd
  BY SlotAssumption DEF ConnTypes
<1>0. /\ client' = [client EXCEPT ![k] = "closed"] /\ fd' = [fd EXCEPT ![s] = NoFd]
      /\ interest' = [interest EXCEPT ![k] = None]
      /\ active' = [active EXCEPT ![s] = {}] /\ instance' = instance
      /\ free' = <<s>> \o free /\ free_n' = free_n + 1 /\ used_n' = used_n - 1
  BY <1>k DEF nn_conn_close, conn_close, conn_pool_free_connection
<1>1. s \notin ToSet(free)
  BY DEF SlotsConserved
<1>2. /\ free' \in Seq(Slot) /\ IsInjective(free') /\ Len(free') = Len(free) + 1
      /\ ToSet(free') = ToSet(free) \cup {s}
  BY <1>0, <1>1, SeqCons DEF ConnTypes, SlotsConserved
<1>3. ConnTypes'
  BY <1>0, <1>2, <1>k DEF ConnTypes, None
<1>4. SlotsConserved'
  <2>1. Open' = Open \ {s} /\ s \in Open
    BY <1>0 DEF ConnTypes, Open
  <2>2. IsFiniteSet(Open)
    BY FS_Subset, SlotAssumption DEF Open
  <2>3. Cardinality(Open') = Cardinality(Open) - 1
    BY <2>1, <2>2, FS_RemoveElement
  <2>4. ToSet(free') = {t \in Slot : fd'[t] = NoFd}
    BY <1>0, <1>2 DEF ConnTypes, SlotsConserved
  <2> QED
    BY <1>0, <1>2, <2>3, <2>4 DEF SlotsConserved, Open
<1>5. Served'
  BY <1>0, <1>k DEF Served, ConnTypes
<1>6. Armed'
  <2>1. \A t \in Slot : t # s => fd[t] # k
    BY <1>k DEF Served
  <2>2. \A j \in Client : j # k /\ interest[j] # None => interest[j].slot # s
    BY <1>k DEF Armed
  <2> QED
    BY <1>0, <1>k, <2>1, <2>2 DEF Armed, ConnTypes
<1> QED
  BY <1>3, <1>4, <1>5, <1>6

\* Adding an event to an open slot, or deleting one, changes its registration along.
LEMMA EventConns ==
  ASSUME Conns, NEW s \in Slot, fd[s] # NoFd, NEW e \in Ev,
         epoll_add_event(s, e) \/ epoll_del_event(s, e)
  PROVE  Conns'
<1> USE DEF Conns
<1>k. PICK k \in Client : fd[s] = k /\ k # NoFd
  BY SlotAssumption DEF ConnTypes
<1>0. UNCHANGED <<client, fd, instance, list>>
  BY DEF epoll_add_event, epoll_del_event
<1>1. PICK m \in SUBSET Ev :
        /\ active' = [active EXCEPT ![s] = m]
        /\ interest' = [interest EXCEPT ![k] =
             IF m = {} THEN None ELSE [slot |-> s, instance |-> instance[s], mask |-> m]]
  <2>1. CASE epoll_add_event(s, e)
    <3>1. /\ active' = [active EXCEPT ![s] = active[s] \cup {e}] /\ active[s] \cup {e} # {}
          /\ active[s] \cup {e} \in SUBSET Ev
      BY <2>1 DEF epoll_add_event, ConnTypes
    <3> QED
      BY <2>1, <3>1, <1>k DEF epoll_add_event
  <2>2. CASE epoll_del_event(s, e)
    <3>1. /\ active' = [active EXCEPT ![s] = active[s] \ {e}]
          /\ active[s] \ {e} \in SUBSET Ev
      BY <2>2 DEF epoll_del_event, ConnTypes
    <3> QED
      BY <2>2, <3>1, <1>k DEF epoll_del_event
  <2> QED
    BY <2>1, <2>2
<1>2. /\ active' \in [Slot -> SUBSET Ev] /\ active'[s] = m
      /\ \A t \in Slot : t # s => active'[t] = active[t]
  BY <1>1 DEF ConnTypes
<1>3. /\ interest' \in [Client -> [slot : Slot \cup {NoFd}, instance : {0, 1}, mask : SUBSET Ev]]
      /\ interest'[k] = IF m = {} THEN None
                        ELSE [slot |-> s, instance |-> instance[s], mask |-> m]
      /\ \A j \in Client : j # k => interest'[j] = interest[j]
  BY <1>1 DEF ConnTypes, None
<1>4. ConnTypes'
  BY <1>0, <1>2, <1>3 DEF ConnTypes, list
<1>5. SlotsConserved' /\ Served'
  BY <1>0 DEF SlotsConserved, Served, list
<1>6. Armed'
  <2>1. \A t \in Slot : t # s => fd[t] # k
    BY <1>k DEF Served
  <2>2. \A j \in Client : j # k /\ interest[j] # None => interest[j].slot # s
    BY <1>k DEF Armed
  <2>3. m # {} => interest'[k] # None
    BY <1>3 DEF None
  <2>4. ASSUME NEW j \in Client, interest'[j] # None
        PROVE  /\ interest'[j].slot \in Slot /\ fd[interest'[j].slot] = j
               /\ interest'[j].instance = instance[interest'[j].slot]
               /\ interest'[j].mask = active'[interest'[j].slot] /\ interest'[j].mask # {}
    <3>1. CASE j = k
      BY <1>k, <1>2, <1>3, <2>4, <3>1
    <3>2. CASE j # k
      <4>1. interest'[j] = interest[j] /\ interest[j] # None
        BY <1>3, <2>4, <3>2
      <4>2. /\ interest[j].slot \in Slot /\ fd[interest[j].slot] = j
            /\ interest[j].instance = instance[interest[j].slot]
            /\ interest[j].mask = active[interest[j].slot] /\ interest[j].mask # {}
        BY <4>1 DEF Armed
      <4>3. active'[interest[j].slot] = active[interest[j].slot]
        BY <1>2, <2>2, <3>2, <4>1, <4>2
      <4> QED
        BY <4>1, <4>2, <4>3
    <3> QED
      BY <3>1, <3>2
  <2>5. ASSUME NEW t \in Slot, active'[t] # {}
        PROVE  fd[t] \in Client /\ interest'[fd[t]] # None /\ interest'[fd[t]].slot = t
    <3>1. CASE t = s
      BY <1>k, <1>2, <1>3, <2>3, <2>5, <3>1
    <3>2. CASE t # s
      <4>1. active[t] # {}
        BY <1>2, <2>5, <3>2
      <4>2. fd[t] \in Client /\ interest[fd[t]] # None /\ interest[fd[t]].slot = t
        BY <4>1 DEF Armed
      <4> QED
        BY <1>3, <2>1, <3>2, <4>2
    <3> QED
      BY <3>1, <3>2
  <2> QED
    BY <1>0, <2>4, <2>5 DEF Armed
<1> QED
  BY <1>4, <1>5, <1>6

\* Whatever the handlers of a connection do, no slot changes hands: it stays as it is or
\* is closed, and its instance is kept.
LEMMA HandlerConns ==
  ASSUME Conns, NEW s \in Slot, fd[s] # NoFd, handler(s)
  PROVE  Conns' /\ instance' = instance /\ \A t \in Slot : fd'[t] \in {fd[t], NoFd}
<1>1. CASE nn_conn_close(s)
  BY <1>1, CloseConns DEF nn_conn_close, conn_close, Conns, ConnTypes
<1>2. ASSUME NEW e \in Ev, epoll_add_event(s, e) \/ epoll_del_event(s, e)
      PROVE  Conns' /\ instance' = instance /\ fd' = fd
  BY <1>2, EventConns DEF epoll_add_event, epoll_del_event
<1>3. CASE UNCHANGED <<client, slots, list, interest>>
  BY <1>3 DEF Conns, ConnTypes, SlotsConserved, Served, Armed, slots, list
<1> QED
  BY <1>1, <1>2, <1>3 DEF handler

\* The slot accept takes is closed and has no active event.
LEMMA FreeSlot ==
  ASSUME Conns, free # <<>>
  PROVE  /\ Head(free) \in Slot /\ fd[Head(free)] = NoFd /\ active[Head(free)] = {}
         /\ next_instance(Head(free)) \in {0, 1}
<1>1. Head(free) \in Slot /\ fd[Head(free)] = NoFd
  BY SeqTail DEF Conns, ConnTypes, SlotsConserved
<1>2. active[Head(free)] = {}
  BY <1>1, SlotAssumption DEF Conns, Armed
<1>3. \A i \in {0, 1} : 1 - i \in {0, 1}
  OBVIOUS
<1> QED
  BY <1>1, <1>2, <1>3 DEF Conns, ConnTypes, next_instance

\* A client is served: its slot leaves the free list and its registration is new.
LEMMA AcceptConns ==
  ASSUME Conns, NEW k \in Client, accept(k)
  PROVE  Conns'
<1> USE DEF Conns
<1>k. client[k] = "backlog" /\ free # <<>> /\ k # NoFd
  BY SlotAssumption DEF accept
<1>s. PICK s \in Slot : s = Head(free) /\ fd[s] = NoFd /\ active[s] = {}
  BY <1>k, FreeSlot
<1>i. PICK i \in {0, 1} : i = next_instance(s)
  BY <1>k, <1>s, FreeSlot
<1>0. /\ client' = [client EXCEPT ![k] = "served"] /\ fd' = [fd EXCEPT ![s] = k]
      /\ instance' = [instance EXCEPT ![s] = i] /\ active' = [active EXCEPT ![s] = {"r"}]
      /\ interest' = [interest EXCEPT ![k] = [slot |-> s, instance |-> i, mask |-> {"r"}]]
      /\ free' = Tail(free) /\ free_n' = free_n - 1 /\ used_n' = used_n + 1
  BY <1>s, <1>i DEF accept, conn_pool_get_connection
<1>1. \A t \in Slot : fd[t] # k
  BY <1>k DEF Served
<1>2. interest[k] = None
  BY <1>1 DEF Armed
<1>3. /\ free' \in Seq(Slot) /\ IsInjective(free') /\ Len(free') = Len(free) - 1
      /\ ToSet(free') = ToSet(free) \ {s}
  BY <1>0, <1>k, <1>s, SeqTail DEF ConnTypes, SlotsConserved
<1>4. ConnTypes'
  BY <1>0, <1>3 DEF ConnTypes, Ev
<1>5. SlotsConserved'
  <2>1. Open' = Open \cup {s} /\ s \notin Open
    BY <1>0, <1>k, <1>s DEF ConnTypes, Open
  <2>2. IsFiniteSet(Open)
    BY FS_Subset, SlotAssumption DEF Open
  <2>3. Cardinality(Open') = Cardinality(Open) + 1
    BY <2>1, <2>2, FS_AddElement
  <2>4. ToSet(free') = {t \in Slot : fd'[t] = NoFd}
    BY <1>0, <1>3, <1>k DEF ConnTypes, SlotsConserved
  <2> QED
    BY <1>0, <1>3, <2>3, <2>4 DEF SlotsConserved, Open
<1>6. Served'
  <2>1. client'[k] = "served" /\ \A j \in Client : j # k => client'[j] = client[j]
    BY <1>0 DEF ConnTypes
  <2>2. fd'[s] = k /\ \A t \in Slot : t # s => fd'[t] = fd[t]
    BY <1>0 DEF ConnTypes
  <2>3. \A t \in Slot : fd[t] # NoFd => fd[t] \in Client
    BY DEF ConnTypes
  <2>4. \A t \in Slot : fd'[t] # NoFd => client'[fd'[t]] = "served"
    BY <1>1, <2>1, <2>2, <2>3 DEF Served
  <2>5. \A t, u \in Slot : fd'[t] # NoFd /\ fd'[t] = fd'[u] => t = u
    BY <1>1, <2>2 DEF Served
  <2>6. \A j \in Client : client'[j] = "served" => \E t \in Slot : fd'[t] = j
    BY <1>s, SlotAssumption, <2>1, <2>2 DEF Served
  <2> QED
    BY <2>4, <2>5, <2>6 DEF Served
<1>7. Armed'
  <2>1. \A j \in Client : j # k /\ interest[j] # None => interest[j].slot # s
    BY <1>s, SlotAssumption DEF Armed
  <2>2. interest'[k] # None /\ \A j \in Client : j # k => interest'[j] = interest[j]
    BY <1>0 DEF None, ConnTypes
  <2>3. ASSUME NEW j \in Client, interest'[j] # None
        PROVE  /\ interest'[j].slot \in Slot /\ fd'[interest'[j].slot] = j
               /\ interest'[j].instance = instance'[interest'[j].slot]
               /\ interest'[j].mask = active'[interest'[j].slot] /\ interest'[j].mask # {}
    <3>1. CASE j = k
      BY <1>0, <3>1 DEF ConnTypes
    <3>2. CASE j # k
      BY <1>0, <2>1, <2>2, <2>3, <3>2 DEF Armed, ConnTypes
    <3> QED
      BY <3>1, <3>2
  <2>4. ASSUME NEW t \in Slot, active'[t] # {}
        PROVE  fd'[t] \in Client /\ interest'[fd'[t]] # None /\ interest'[fd'[t]].slot = t
    <3>1. CASE t = s
      BY <1>0, <2>2, <3>1 DEF ConnTypes
    <3>2. CASE t # s
      BY <1>0, <1>1, <2>2, <2>4, <3>2 DEF Armed, ConnTypes
    <3> QED
      BY <3>1, <3>2
  <2> QED
    BY <2>3, <2>4 DEF Armed
<1> QED
  BY <1>4, <1>5, <1>6, <1>7

\* The error paths of the accept loop leave the connections as they were.
LEMMA RefuseConns ==
  ASSUME Conns, NEW k \in Client, accept_refused(k) \/ accept_fails(k)
  PROVE  Conns'
<1> USE DEF Conns
<1>0. /\ client[k] = "backlog" /\ client' = [client EXCEPT ![k] = "closed"]
      /\ UNCHANGED <<fd, list, interest>>
  BY DEF accept_refused, accept_fails, slots
<1>1. SlotsConserved' /\ Served'
  BY <1>0 DEF SlotsConserved, Served, ConnTypes, list
<1>2. CASE accept_refused(k)
  BY <1>0, <1>1, <1>2 DEF accept_refused, slots, ConnTypes, Armed, list
<1>3. CASE accept_fails(k)
  <2>1. PICK s \in Slot : s = Head(free) /\ fd[s] = NoFd /\ active[s] = {}
    BY <1>3, FreeSlot DEF accept_fails
  <2>2. PICK i \in {0, 1} : i = next_instance(s)
    BY <1>3, <2>1, FreeSlot DEF accept_fails
  <2>3. instance' = [instance EXCEPT ![s] = i] /\ active' = [active EXCEPT ![s] = {}]
    BY <1>3, <2>1, <2>2 DEF accept_fails
  <2>4. \A j \in Client : interest[j] # None => interest[j].slot # s
    BY <2>1, SlotAssumption DEF Armed
  <2>5. active' = active
    BY <2>1, <2>3 DEF ConnTypes
  <2>6. ConnTypes'
    BY <1>0, <2>3 DEF ConnTypes, list
  <2>7. Armed'
    BY <1>0, <2>3, <2>4, <2>5 DEF ConnTypes, Armed
  <2> QED
    BY <1>1, <2>6, <2>7
<1> QED
  BY <1>2, <1>3

-----------------------------------------------------------------------------
Entry == Slot \X Ev \X {0, 1} \X Client

\* What the round for a client posts: its slot's events, each at most once.
LEMMA PostsOf ==
  ASSUME Conns, NEW k \in Client, interest[k] # None, NEW m
  PROVE  /\ Posts(k, m) \in Seq(Entry) /\ IsInjective(Posts(k, m))
         /\ \A i \in DOMAIN Posts(k, m) : LET x == Posts(k, m)[i] IN
              x[4] = k /\ fd[x[1]] = k /\ instance[x[1]] = x[3]
<1>s. PICK s \in Slot : s = interest[k].slot /\ fd[s] = k
  BY DEF Conns, Armed
<1> DEFINE x == <<s, "r", instance[s], k>>
           y == <<s, "w", instance[s], k>>
<1> DEFINE stale == fd[s] = NoFd \/ instance[s] # interest[k].instance
           Post(e) == IF ~stale /\ e \in m /\ e \in active[s]
                      THEN <<<<s, e, instance[s], k>>>> ELSE <<>>
<1>1. Posts(k, m) = Post("r") \o Post("w")
  BY <1>s DEF Posts
<1>2. Post("r") \in {<<>>, <<x>>} /\ Post("w") \in {<<>>, <<y>>}
  OBVIOUS
<1>3. x \in Entry /\ y \in Entry /\ x # y
  BY DEF Conns, ConnTypes, Entry, Ev
<1>4. /\ x[4] = k /\ fd[x[1]] = k /\ instance[x[1]] = x[3]
      /\ y[4] = k /\ fd[y[1]] = k /\ instance[y[1]] = y[3]
  BY <1>s
<1> HIDE DEF Post, stale, x, y
<1>5. ASSUME NEW z \in {x, y}, NEW p \in {<<>>, <<z>>}
      PROVE  p \in Seq(Entry) /\ IsInjective(p) /\ \A i \in DOMAIN p : p[i] = z
  <2>1. CASE p = <<>>
    BY <2>1 DEF IsInjective
  <2>2. CASE p = <<z>>
    BY <1>3, <2>2 DEF IsInjective
  <2> QED
    BY <2>1, <2>2
<1>6. PICK p, q : p = Post("r") /\ q = Post("w")
  OBVIOUS
<1>7. /\ p \in Seq(Entry) /\ IsInjective(p) /\ \A i \in DOMAIN p : p[i] = x
      /\ q \in Seq(Entry) /\ IsInjective(q) /\ \A i \in DOMAIN q : q[i] = y
  BY <1>2, <1>5, <1>6
<1>8. /\ p \o q \in Seq(Entry) /\ IsInjective(p \o q)
      /\ \A i \in DOMAIN (p \o q) : (p \o q)[i] \in {x, y}
  BY <1>3, <1>7, SeqConcat
<1> QED
  BY <1>1, <1>4, <1>6, <1>8

\* A round of the loop posts events of a client it has not seen in this turn.
LEMMA PostQueue ==
  ASSUME Conns, PostedQueue, NEW k \in Client, epoll_post(k)
  PROVE  PostedQueue'
<1>1. PICK m \in (SUBSET interest[k].mask) \ {{}} : posted' = posted \o Posts(k, m)
  BY DEF epoll_post
<1>2. interest[k] # None
  <2> SUFFICES ASSUME interest[k] = None PROVE FALSE
    OBVIOUS
  <2>1. interest[k].mask = {}
    BY DEF None
  <2>2. m = {}
    BY <1>1, <2>1
  <2> QED
    BY <1>1, <2>2
<1>3. PICK p : p = Posts(k, m)
  OBVIOUS
<1>4. /\ p \in Seq(Entry) /\ IsInjective(p)
      /\ \A i \in DOMAIN p : p[i][4] = k /\ fd[p[i][1]] = k /\ instance[p[i][1]] = p[i][3]
  BY <1>2, <1>3, PostsOf
<1>5. /\ turn = "wait" /\ k \notin reported /\ reported' = reported \cup {k}
      /\ fd' = fd /\ instance' = instance /\ turn' = turn
  BY DEF epoll_post, slots
<1>6. posted \in Seq(Entry) /\ IsInjective(posted)
  BY DEF PostedQueue, Entry, PostedForItsConn
<1>7. \A i \in DOMAIN posted, j \in DOMAIN p : posted[i] # p[j]
  BY <1>4, <1>5 DEF PostedQueue
<1>8. /\ posted' \in Seq(Entry) /\ IsInjective(posted')
      /\ \A i \in DOMAIN posted' :
           \/ i \in DOMAIN posted /\ posted'[i] = posted[i]
           \/ i - Len(posted) \in DOMAIN p /\ posted'[i] = p[i - Len(posted)]
  <2>1. posted' = posted \o p
    BY <1>1, <1>3
  <2>2. p \in Seq(Entry) /\ IsInjective(p)
    BY <1>4
  <2>3. /\ posted \o p \in Seq(Entry) /\ IsInjective(posted \o p)
        /\ \A i \in DOMAIN (posted \o p) :
             \/ i \in DOMAIN posted /\ (posted \o p)[i] = posted[i]
             \/ i - Len(posted) \in DOMAIN p /\ (posted \o p)[i] = p[i - Len(posted)]
    BY <1>6, <1>7, <2>2, SeqConcat
  <2> QED
    BY <2>1, <2>3
<1>9. ASSUME NEW i \in DOMAIN posted'
      PROVE  /\ fd[posted'[i][1]] = posted'[i][4] /\ instance[posted'[i][1]] = posted'[i][3]
             /\ posted'[i][4] \in reported'
  <2>1. CASE i \in DOMAIN posted /\ posted'[i] = posted[i]
    BY <1>5, <2>1 DEF PostedQueue, PostedForItsConn
  <2>2. CASE i - Len(posted) \in DOMAIN p /\ posted'[i] = p[i - Len(posted)]
    BY <1>4, <1>5, <2>2
  <2> QED
    BY <1>8, <2>1, <2>2
<1> QED
  BY <1>5, <1>8, <1>9 DEF PostedQueue, PostedForItsConn, Entry

\* Taking the first event leaves the others as they were.
LEMMA TailQueue ==
  ASSUME posted \in Seq(Entry), posted # <<>>, IsInjective(posted)
  PROVE  /\ Head(posted)[1] \in Slot
         /\ Tail(posted) \in Seq(Entry) /\ IsInjective(Tail(posted))
         /\ \A i \in DOMAIN Tail(posted) :
              i + 1 \in DOMAIN posted /\ Tail(posted)[i] = posted[i + 1]
  BY SeqTail DEF Entry

\* While no slot gets another client and the queue only shrinks, its events stay theirs.
LEMMA QueueKept ==
  ASSUME PostedQueue, turn = "posted" \/ turn = "timers", turn' = turn, reported' = reported,
         instance' = instance, \A t \in Slot : fd'[t] \in {fd[t], NoFd},
         posted' = posted \/ (posted # <<>> /\ posted' = Tail(posted))
  PROVE  PostedQueue'
<1>1. posted \in Seq(Entry) /\ IsInjective(posted)
  BY DEF PostedQueue, Entry, PostedForItsConn
<1>2. /\ posted' \in Seq(Entry) /\ IsInjective(posted')
      /\ \A i \in DOMAIN posted' : \E j \in DOMAIN posted : posted'[i] = posted[j]
  <2>1. CASE posted' = posted
    BY <1>1, <2>1
  <2>2. CASE posted # <<>> /\ posted' = Tail(posted)
    BY <1>1, <2>2, TailQueue
  <2> QED
    BY <2>1, <2>2
<1>3. ASSUME NEW i \in DOMAIN posted'
      PROVE  /\ fd'[posted'[i][1]] \in {posted'[i][4], NoFd}
             /\ instance'[posted'[i][1]] = posted'[i][3]
  <2>1. PICK j \in DOMAIN posted : posted'[i] = posted[j]
    BY <1>2
  <2>2. posted[j] \in Entry
    BY <1>1
  <2>3. posted[j][1] \in Slot
    BY <2>2 DEF Entry
  <2>4. fd[posted[j][1]] \in {posted[j][4], NoFd} /\ instance[posted[j][1]] = posted[j][3]
    BY DEF PostedQueue, PostedForItsConn
  <2> QED
    BY <2>1, <2>3, <2>4
<1>4. turn = "timers" => posted' = <<>>
  BY DEF PostedQueue
<1> QED
  BY <1>2, <1>3, <1>4 DEF PostedQueue, PostedForItsConn, Entry

\* accept takes no slot that is in the queue: those are open still.
LEMMA AcceptQueue ==
  ASSUME Conns, PostedQueue, NEW k \in Client,
         accept(k) \/ accept_refused(k) \/ accept_fails(k)
  PROVE  PostedQueue'
<1>0. posted' = posted /\ reported' = reported /\ turn = "accept" /\ turn' = turn
  BY DEF accept, accept_refused, accept_fails
<1>1. ASSUME NEW i \in DOMAIN posted
      PROVE  posted[i][1] \in Slot /\ fd[posted[i][1]] = posted[i][4] /\ fd[posted[i][1]] # NoFd
  <2>1. posted[i] \in Slot \X Ev \X {0, 1} \X Client
    BY DEF PostedQueue
  <2> QED
    BY <1>0, <2>1, SlotAssumption DEF PostedQueue
<1>2. ASSUME NEW t \in Slot, fd[t] # NoFd
      PROVE  fd'[t] = fd[t] /\ instance'[t] = instance[t]
  <2>1. CASE accept_refused(k)
    BY <2>1 DEF accept_refused, slots
  <2>2. CASE accept(k) \/ accept_fails(k)
    <3>1. Head(free) \in Slot /\ t # Head(free)
      BY <1>2, <2>2, FreeSlot DEF accept, accept_fails
    <3> QED
      BY <2>2, <3>1 DEF accept, accept_fails, Conns, ConnTypes
  <2> QED
    BY <2>1, <2>2
<1> QED
  BY <1>0, <1>1, <1>2 DEF PostedQueue, PostedForItsConn

\* The invariant holds when the pool was made.
LEMMA ConnStart ==
  CsInit => ConnInv
<1> SUFFICES ASSUME CsInit PROVE ConnInv
  OBVIOUS
<1>1. ConnTypes
  BY SeqOfSet, SlotAssumption DEF CsInit, ConnTypes, None
<1>2. SlotsConserved
  <2>1. {s \in Slot : fd[s] = NoFd} = Slot /\ {s \in Slot : fd[s] # NoFd} = {}
    BY DEF CsInit
  <2> QED
    BY <2>1, SeqOfSet, SlotAssumption, FS_EmptySet DEF CsInit, SlotsConserved
<1>3. Served /\ Armed
  BY SlotAssumption DEF CsInit, Served, Armed
<1>4. PostedQueue
  <2>1. posted = <<>> /\ reported = {} /\ turn = "wait"
    BY DEF CsInit
  <2>2. /\ posted \in Seq(Slot \X Ev \X {0, 1} \X Client) /\ DOMAIN posted = {}
        /\ IsInjective(posted)
    BY <2>1 DEF IsInjective
  <2> QED
    BY <2>1, <2>2 DEF PostedQueue, PostedForItsConn
<1> QED
  BY <1>1, <1>2, <1>3, <1>4 DEF ConnInv, Conns

\* Every step keeps the invariant.
LEMMA ConnStep ==
  ConnInv /\ [CsNext]_cs_vars => ConnInv'
<1> SUFFICES ASSUME ConnInv, [CsNext]_cs_vars PROVE ConnInv'
  OBVIOUS
<1> USE DEF ConnInv
<1>c. Conns /\ UNCHANGED <<client, slots, list, interest>> => Conns'
  <2> SUFFICES ASSUME Conns, UNCHANGED <<client, slots, list, interest>> PROVE Conns'
    OBVIOUS
  <2>0. UNCHANGED <<client, fd, instance, active, free, free_n, used_n, interest>>
    BY DEF slots, list
  <2>1. ConnTypes'
    BY <2>0 DEF Conns, ConnTypes
  <2>2. SlotsConserved'
    BY <2>0 DEF Conns, SlotsConserved
  <2>3. Served'
    BY <2>0 DEF Conns, Served
  <2>4. Armed'
    BY <2>0 DEF Conns, Armed
  <2> QED
    BY <2>1, <2>2, <2>3, <2>4 DEF Conns
<1>1. ASSUME NEW k \in Client, connect(k) PROVE ConnInv'
  <2>0. /\ client[k] = "away"
        /\ client' = [client EXCEPT ![k] = "backlog"]
        /\ UNCHANGED <<fd, instance, active, free, free_n, used_n, interest>>
    BY <1>1 DEF connect, slots, list
  <2>1. Conns'
    <3>1. ConnTypes'
      BY <2>0 DEF Conns, ConnTypes
    <3>2. SlotsConserved'
      BY <2>0 DEF Conns, SlotsConserved
    <3>3. Served'
      BY <2>0 DEF Conns, ConnTypes, Served
    <3>4. Armed'
      BY <2>0 DEF Conns, Armed
    <3> QED
      BY <3>1, <3>2, <3>3, <3>4 DEF Conns
  <2>2. PostedQueue'
    BY <1>1 DEF connect, PostedQueue, PostedForItsConn, slots
  <2> QED
    BY <2>1, <2>2
<1>2. ASSUME NEW k \in Client, epoll_post(k) PROVE ConnInv'
  BY <1>c, <1>2, PostQueue DEF epoll_post
<1>3. CASE epoll_process_events
  BY <1>c, <1>3 DEF epoll_process_events, PostedQueue, PostedForItsConn, slots
<1>4. CASE Accept
  BY <1>4, AcceptConns, RefuseConns, AcceptQueue DEF Accept
<1>5. CASE accept_done
  BY <1>c, <1>5 DEF accept_done, PostedQueue, PostedForItsConn, slots
<1>6. CASE event_process_posted
  <2>1. /\ turn = "posted" /\ posted # <<>> /\ posted' = Tail(posted)
        /\ UNCHANGED <<reported, turn>> /\ Head(posted)[1] \in Slot
    BY <1>6, TailQueue DEF event_process_posted, PostedQueue, Entry, PostedForItsConn
  <2>2. Conns' /\ instance' = instance /\ \A t \in Slot : fd'[t] \in {fd[t], NoFd}
    <3>1. CASE fd[Head(posted)[1]] # NoFd
      BY <1>6, <2>1, <3>1, HandlerConns DEF event_process_posted
    <3>2. CASE fd[Head(posted)[1]] = NoFd
      BY <1>c, <1>6, <3>2 DEF event_process_posted, slots
    <3> QED
      BY <3>1, <3>2
  <2> QED
    BY <2>1, <2>2, QueueKept
<1>7. CASE posted_done
  BY <1>c, <1>7 DEF posted_done, PostedQueue, PostedForItsConn, slots
<1>8. CASE timers_done
  BY <1>c, <1>8 DEF timers_done, PostedQueue, PostedForItsConn, slots
<1>9. ASSUME NEW s \in Slot, other_handler(s) PROVE ConnInv'
  <2>1. Conns' /\ instance' = instance /\ \A t \in Slot : fd'[t] \in {fd[t], NoFd}
    BY <1>9, HandlerConns DEF other_handler
  <2>2. /\ turn = "posted" \/ turn = "timers"
        /\ posted' = posted /\ reported' = reported /\ turn' = turn
    BY <1>9 DEF other_handler
  <2> QED
    BY <2>1, <2>2, QueueKept
<1>10. CASE UNCHANGED cs_vars
  BY <1>c, <1>10 DEF cs_vars, PostedQueue, PostedForItsConn, slots
<1> QED
  BY <1>1, <1>2, <1>3, <1>4, <1>5, <1>6, <1>7, <1>8, <1>9, <1>10 DEF CsNext

\* The connections of the invariant are those the pool, the descriptors and the epoll
\* agree about.
LEMMA Agreed ==
  Conns => ConnectionsAgree
<1> SUFFICES ASSUME Conns PROVE ConnectionsAgree
  OBVIOUS
<1>1. NoLostDescriptor
  <2> SUFFICES ASSUME NEW k \in Client
               PROVE  Cardinality({s \in Slot : fd[s] = k}) =
                        IF client[k] = "served" THEN 1 ELSE 0
    BY DEF NoLostDescriptor
  <2>1. CASE client[k] = "served"
    <3>1. PICK s \in Slot : fd[s] = k
      BY <2>1 DEF Conns, Served
    <3>2. {t \in Slot : fd[t] = k} = {s}
      BY <3>1, SlotAssumption DEF Conns, Served
    <3> QED
      BY <2>1, <3>2, FS_Singleton
  <2>2. CASE client[k] # "served"
    <3>1. {t \in Slot : fd[t] = k} = {}
      BY <2>2, SlotAssumption DEF Conns, Served
    <3> QED
      BY <2>2, <3>1, FS_EmptySet
  <2> QED
    BY <2>1, <2>2
<1>2. EpollMatchesActive
  BY DEF EpollMatchesActive, Conns, Armed
<1> QED
  BY <1>1, <1>2 DEF ConnectionsAgree, Conns

\* Through every error path of the accept loop and every reuse of a slot, for any number of
\* slots and of clients: each slot is free or open, once; each descriptor accept returned is
\* closed or one slot's; a registration leads to the slot of its descriptor and asks for
\* just the events that are active there.
THEOREM ConnectionsStayAgreed == CsSpec => []ConnectionsAgree
<1>1. CsSpec => []ConnInv
  BY ConnStart, ConnStep, PTL DEF CsSpec, CsSafety
<1>2. ConnInv => ConnectionsAgree
  BY Agreed DEF ConnInv
<1> QED
  BY <1>1, <1>2, PTL

\* However the events of a turn are reported and whatever the handlers before it do, a
\* posted event meets its own connection or a closed slot, never the next client's, and
\* is in the queue once.  It rests on the order of a turn: the queue is filled, accept
\* takes free slots only, and the queue is emptied before the next accept.
THEOREM PostedStayTheirs == CsSpec => []PostedForItsConn
<1>1. CsSpec => []ConnInv
  BY ConnStart, ConnStep, PTL DEF CsSpec, CsSafety
<1>2. ConnInv => PostedForItsConn
  BY DEF ConnInv, PostedQueue
<1> QED
  BY <1>1, <1>2, PTL
=============================================================================
