----------------------------- MODULE SortedList -----------------------------
(***************************************************************************)
(* What a tree of timers promises: the nodes in it as one list in the      *)
(* order of their keys, nodes with equal keys in the order they came in.   *)
(***************************************************************************)
EXTENDS Integers, Sequences

CONSTANTS
  Node,
  KeyOf    \* KeyOf[n]: the keys n may have

VARIABLES list, keyof

Members == {list[i] : i \in 1 .. Len(list)}

Init == list = <<>> /\ keyof = [n \in Node |-> 0]

\* A node goes behind all nodes with a smaller or an equal key.
Insert(n, k) ==
  /\ n \notin Members
  /\ keyof' = [keyof EXCEPT ![n] = k]
  /\ LET NotAfter(m) == keyof[m] <= k
     IN  list' = SelectSeq(list, NotAfter) \o <<n>>
                 \o SelectSeq(list, LAMBDA m : ~NotAfter(m))

Delete(n) ==
  /\ n \in Members
  /\ keyof' = [keyof EXCEPT ![n] = 0]
  /\ list' = SelectSeq(list, LAMBDA m : m # n)

Next == \E n \in Node : Delete(n) \/ \E k \in KeyOf[n] : Insert(n, k)

Spec == Init /\ [][Next]_<<list, keyof>>
=============================================================================
