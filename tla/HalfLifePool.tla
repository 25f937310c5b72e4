----------------------------- MODULE HalfLifePool -----------------------------
(***************************************************************************)
(* The half-life pool of core/dfs_half_life_mempool.cpp: a queue of free   *)
(* nodes that is filled up to max_size when a get finds at most min_size   *)
(* of them, and cut down to max_size when a node comes back.  malloc may   *)
(* fail at any node.  A get on an empty queue would take the queue's own   *)
(* head for a node: that is SENTINEL here.                                 *)
(***************************************************************************)
EXTENDS Integers, SequencesExt

CONSTANTS
  Node,          \* what malloc can return
  SENTINEL,      \* pool->free_q itself
  MaxSizes,      \* values of max_reserv_size
  MinSizes       \* values of min_reserv_size

\* hl_mempool_create also takes a negative min_reserv_size, with which an empty queue would
\* not be filled; a reserve below 0 means nothing and is left out.
ASSUME HlAssumption == MaxSizes \subseteq Int /\ MinSizes \subseteq Nat /\ SENTINEL \notin Node

VARIABLES
  max_size, min_size,
  free_q,        \* the queue of free nodes
  free_size,     \* how many the pool believes it has
  taken,         \* the nodes with users
  refused        \* the last get returned nullptr

hl_vars == <<max_size, min_size, free_q, free_size, taken, refused>>

malloced == ToSet(free_q) \cup taken

\* The sequences of nodes k mallocs in a row may return.
Mallocs(k) == {s \in [1 .. k -> Node \ malloced] : IsInjective(s)}

\* hl_mempool_create, where it succeeds: max_size nodes.
HlInit ==
  /\ max_size \in MaxSizes /\ min_size \in MinSizes
  /\ max_size > 0 /\ max_size >= min_size
  /\ taken = {} /\ refused = FALSE
  /\ free_q \in {s \in [1 .. max_size -> Node] : IsInjective(s)}
  /\ free_size = max_size

\* What do_expand may leave in the queue: all of it where there is enough or every malloc
\* succeeds, a part where one fails; ok is whether it returned 0.
do_expand ==
  IF free_size > min_size THEN {[q |-> free_q, ok |-> TRUE]}
  ELSE {[q |-> free_q \o s, ok |-> Len(s) = max_size - free_size] :
          s \in UNION {Mallocs(k) : k \in 0 .. max_size - free_size}}

\* Mutant of get_gives_up: a failed expansion is not looked at.
get_gives_up_never(e) == FALSE

get_gives_up(e) == ~e.ok /\ Len(e.q) <= 0

hl_mempool_get ==
  \E e \in do_expand :
    /\ IF get_gives_up(e)
       THEN /\ free_q' = e.q /\ free_size' = Len(e.q) /\ refused' = TRUE
            /\ UNCHANGED taken
       ELSE /\ taken' = taken \cup {IF e.q = << >> THEN SENTINEL ELSE Head(e.q)}
            /\ free_q' = IF e.q = << >> THEN e.q ELSE Tail(e.q)
            /\ free_size' = Len(e.q) - 1 /\ refused' = FALSE
    /\ UNCHANGED <<max_size, min_size>>

\* Insert at the tail, then do_shrink takes from the head what is above max_size.
hl_mempool_free(n) ==
  /\ LET q == Append(free_q, n)
         over == IF free_size + 1 > max_size THEN free_size + 1 - max_size ELSE 0
     IN /\ free_q' = SubSeq(q, over + 1, Len(q))
        /\ free_size' = free_size + 1 - over
  /\ taken' = taken \ {n}
  /\ refused' = FALSE
  /\ UNCHANGED <<max_size, min_size>>

HlNext == hl_mempool_get \/ \E n \in taken : hl_mempool_free(n)

HlSpec == HlInit /\ [][HlNext]_hl_vars

-----------------------------------------------------------------------------
\* The pool counts its queue right and keeps at most max_size free, a node is with one
\* user or once in the queue, a user never has the queue's own head for a node, and a get
\* is refused only when the pool has nothing left: for every min_size from 0 up.
HalfLifeSound ==
  /\ free_size = Len(free_q) /\ free_size <= max_size
  /\ IsInjective(free_q)
  /\ ToSet(free_q) \cap taken = {}
  /\ taken \subseteq Node
  /\ refused => free_q = << >>
=============================================================================
