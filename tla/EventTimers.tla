----------------------------- MODULE EventTimers -----------------------------
(***************************************************************************)
(* The timers of an event loop: event_timer_add, event_timer_del and       *)
(* event_timers_expire (core/dfs_event_timer.cpp) on the red-black tree,   *)
(* in the turns of thread_event_process (dn_thread.cpp).                   *)
(*                                                                         *)
(* A timer is the tree node of an event.  Only the loop's own thread works *)
(* on the tree; the clock dfs_current_msec is one variable of the process  *)
(* that every thread's time_update moves.  A turn notes the clock, waits   *)
(* in epoll, runs handlers, and goes through the timers only if the clock  *)
(* has moved meanwhile; moved stands for delta # 0.                        *)
(***************************************************************************)
EXTENDS RbTree

CONSTANTS
  MaxTime,     \* bound: the clock stops counting here, all keys lie below
  Delay,       \* timeouts the handlers ask for
  LazyDelay,   \* EVENT_TIMER_LAZY_DELAY
  TurnAdds     \* bound: calls of add or del in the handlers of one turn

ASSUME TimeAssumption ==
  /\ MaxTime \in Nat /\ LazyDelay \in Nat /\ TurnAdds \in Nat
  /\ Delay \subseteq Nat \ {0}

VARIABLES
  timer_set,   \* ev->timer_set
  want,        \* history: the key the last event_timer_add asked for
  now,         \* dfs_current_msec
  moved,       \* the clock has moved since the turn began
  calls,       \* calls left to the handlers that run now
  pc

loop == <<now, moved, calls, pc>>
vars == <<tree, timer_set, want, loop>>

Init ==
  /\ tree = rbtree_init
  /\ timer_set = [e \in Node |-> FALSE]
  /\ want = [e \in Node |-> 0]
  /\ now = 1 /\ moved = FALSE /\ calls = 0
  /\ pc = "find"

Distance(a, b) == IF a < b THEN b - a ELSE a - b

\* Mutant of event_timer_add: the key of a set timer is changed in place.
timer_add_in_place(e, d) ==
  LET key == now + d
  IN  /\ want' = [want EXCEPT ![e] = key]
      /\ timer_set' = [timer_set EXCEPT ![e] = TRUE]
      /\ tree' = IF ~timer_set[e]
                 THEN rbtree_insert([tree EXCEPT !.key[e] = key], e)
                 ELSE [tree EXCEPT !.key[e] = key]

\* event_timer_add: a timer that is set already and due at nearly the same
\* time stays as it is.
event_timer_add(e, d) ==
  LET key == now + d
      t == IF timer_set[e] THEN rbtree_delete(tree, e) ELSE tree
  IN  /\ want' = [want EXCEPT ![e] = key]
      /\ timer_set' = [timer_set EXCEPT ![e] = TRUE]
      /\ tree' = IF timer_set[e] /\ Distance(key, tree.key[e]) < LazyDelay
                 THEN tree
                 ELSE rbtree_insert([t EXCEPT !.key[e] = key], e)

\* event_timer_del: nothing for a timer that is not set.
event_timer_del(e) ==
  /\ tree' = IF timer_set[e] THEN rbtree_delete(tree, e) ELSE tree
  /\ timer_set' = [timer_set EXCEPT ![e] = FALSE]
  /\ want' = [want EXCEPT ![e] = 0]

-----------------------------------------------------------------------------
\* thread_event_process: the turn begins, delta is noted.
event_find_timer ==
  /\ pc = "find"
  /\ pc' = "wait" /\ moved' = FALSE
  /\ UNCHANGED <<tree, timer_set, want, now, calls>>

\* epoll_wait returns and the handlers of the events run.
epoll_process_events ==
  /\ pc = "wait"
  /\ pc' = "events" /\ calls' = TurnAdds
  /\ UNCHANGED <<tree, timer_set, want, now, moved>>

\* A handler, of an event or of a timer, sets or deletes a timer.
handler(e) ==
  /\ pc \in {"events", "timer"} /\ calls > 0
  /\ \/ \E d \in Delay : now + d <= MaxTime /\ event_timer_add(e, d)
     \/ event_timer_del(e)
  /\ calls' = calls - 1
  /\ UNCHANGED <<now, moved, pc>>

\* Mutant of events_done: the timers are never gone through.
events_done_skips ==
  /\ pc = "events"
  /\ pc' = "find"
  /\ UNCHANGED <<tree, timer_set, want, now, moved, calls>>

\* The posted events are done; without a move of the clock the turn ends.
events_done ==
  /\ pc = "events"
  /\ pc' = IF moved THEN "expire" ELSE "find"
  /\ calls' = 0
  /\ UNCHANGED <<tree, timer_set, want, now, moved>>

\* The node event_timers_expire looks at.
First == rbtree_min(tree, tree.root)

Due == IF tree.root = Nil THEN FALSE ELSE tree.key[First] <= now

\* Mutant of event_timers_expire: it takes the root of the tree.
timers_expire_root ==
  /\ pc = "expire" /\ tree.root # Nil
  /\ tree.key[tree.root] <= now
  /\ tree' = rbtree_delete(tree, tree.root)
  /\ timer_set' = [timer_set EXCEPT ![tree.root] = FALSE]
  /\ want' = [want EXCEPT ![tree.root] = 0]
  /\ pc' = "timer" /\ calls' = TurnAdds
  /\ UNCHANGED <<now, moved>>

\* event_timers_expire: the first timer is due; its handler is called.
event_timers_expire ==
  /\ pc = "expire" /\ Due
  /\ tree' = rbtree_delete(tree, First)
  /\ timer_set' = [timer_set EXCEPT ![First] = FALSE]
  /\ want' = [want EXCEPT ![First] = 0]
  /\ pc' = "timer" /\ calls' = TurnAdds
  /\ UNCHANGED <<now, moved>>

\* The handler of a timer returns.
timer_done ==
  /\ pc = "timer"
  /\ pc' = "expire" /\ calls' = 0
  /\ UNCHANGED <<tree, timer_set, want, now, moved>>

\* event_timers_expire: the tree is empty or its first timer is not due.
timers_done ==
  /\ pc = "expire"
  /\ ~Due
  /\ pc' = "find"
  /\ UNCHANGED <<tree, timer_set, want, now, moved, calls>>

\* time_update, by this or by another thread, at any time.
time_update ==
  /\ now' = IF now < MaxTime THEN now + 1 ELSE now
  /\ moved' = TRUE
  /\ UNCHANGED <<tree, timer_set, want, calls, pc>>

\* Bound: with no timer set, time may be counted from anew.
rebase ==
  /\ pc = "find" /\ tree.root = Nil /\ now > 1
  /\ now' = 1
  /\ UNCHANGED <<tree, timer_set, want, moved, calls, pc>>

Turn ==
  \/ event_find_timer \/ epoll_process_events \/ events_done
  \/ event_timers_expire \/ timer_done \/ timers_done

Next == Turn \/ time_update \/ rebase \/ \E e \in Node : handler(e)

\* The thread goes on, and the clock moves again and again while a turn waits:
\* epoll_wait blocks, and the wait is followed by time_update.
Fairness ==
  /\ WF_vars(Turn)
  /\ SF_vars(time_update /\ pc = "wait")

SafetySpec == Init /\ [][Next]_vars
Spec == SafetySpec /\ Fairness

-----------------------------------------------------------------------------
\* The bit timer_set of an event and the tree agree, and the tree is sorted,
\* through every add, lazy add, delete and expiry.
TimersInTree ==
  /\ Contents(tree) = {e \in Node : timer_set[e]}
  /\ \A i \in 2 .. Len(Listed(tree)) :
       tree.key[Listed(tree)[i - 1]] <= tree.key[Listed(tree)[i]]

\* The lazy delay of event_timer_add does not add up: however often a timer is
\* set again, it is due within LazyDelay of the last request.
LazyDrift ==
  \A e \in Node : timer_set[e] =>
    Distance(want[e], tree.key[e]) < LazyDelay \/ want[e] = tree.key[e]

\* A timer that is set is in the tree, in its order, at the time it was asked for but
\* for one lazy delay, through every add, delete and expiry.
TimersKept == TimersInTree /\ LazyDrift

\* event_timers_expire calls no handler while another timer was due earlier.
ExpiresInOrder ==
  [][\A e, f \in Node :
       pc = "expire" /\ timer_set[e] /\ ~timer_set'[e] /\ timer_set[f]
         => tree.key[e] <= tree.key[f]]_vars

\* When event_timers_expire returns no timer is left that was due, those that
\* its handlers set and those the clock made due meanwhile included.
NoneLeftDue ==
  [][pc = "expire" /\ pc' = "find" =>
       \A e \in Node : timer_set[e] => tree.key[e] > now]_vars

\* One pass of event_timers_expire takes the timers that are due, all of them and in
\* their order, though its handlers set and delete timers meanwhile.
ExpirySound == ExpiresInOrder /\ NoneLeftDue

\* A timer that is due is fired, unless a handler moves or deletes it: also
\* when other threads have moved the clock before the turn noted it, so that
\* the turn sees no delta.
DueTimersFire ==
  \A e \in Node :
    (timer_set[e] /\ tree.key[e] <= now) ~> (~timer_set[e] \/ tree.key[e] > now)
=============================================================================
