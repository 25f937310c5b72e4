------------------------------- MODULE Mailbox -------------------------------
(***************************************************************************)
(* What a task queue with its notice promises to the threads that use it:  *)
(* a task that was put in is handled, once, and eventually.  NoticeQueue   *)
(* (the spin-locked queues, the pipe and the read handler) implements it.  *)
(***************************************************************************)
CONSTANT Task

VARIABLES box,      \* tasks put in and not handled yet
          handled   \* tasks the consumer has handled

vars == <<box, handled>>

Init == box = {} /\ handled = {}

Put(t) ==
  /\ t \notin box \cup handled
  /\ box' = box \cup {t}
  /\ UNCHANGED handled

Handle(t) ==
  /\ t \in box
  /\ box' = box \ {t}
  /\ handled' = handled \cup {t}

Next == \E t \in Task : Put(t) \/ Handle(t)

Spec == Init /\ [][Next]_vars /\ \A t \in Task : WF_vars(Handle(t))

\* The same promise without the obligation to make progress.
SafetySpec == Init /\ [][Next]_vars
=============================================================================
