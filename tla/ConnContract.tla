---------------------------- MODULE ConnContract ----------------------------
(***************************************************************************)
(* What the memory pool of a connection promises to the threads that work  *)
(* on the connection's tasks: its task nodes stay allocated from the       *)
(* moment the connection is open until it is closed AND the last busy node *)
(* has come back, and then the pool is destroyed, once.                    *)
(***************************************************************************)
EXTENDS FiniteSets

CONSTANTS Conn, Node

VARIABLES phase,   \* phase[c]: none, open, closing (closed, nodes busy), gone
          busy     \* busy[c]: nodes handed out and not returned yet

vars == <<phase, busy>>

Init ==
  /\ phase = [c \in Conn |-> "none"]
  /\ busy = [c \in Conn |-> {}]

\* The connection is set up, or its set-up fails and its pool goes at once.
Open(c) ==
  /\ phase[c] = "none"
  /\ \E p \in {"open", "gone"} : phase' = [phase EXCEPT ![c] = p]
  /\ UNCHANGED busy

\* Only an open connection hands out a node, and never one that is in use.
Acquire(c, n) ==
  /\ phase[c] = "open" /\ n \notin busy[c]
  /\ busy' = [busy EXCEPT ![c] = @ \cup {n}]
  /\ UNCHANGED phase

\* A node comes back; the last one to a closed connection ends the pool.
Release(c, n) ==
  /\ phase[c] \in {"open", "closing"} /\ n \in busy[c]
  /\ busy' = [busy EXCEPT ![c] = @ \ {n}]
  /\ phase' = [phase EXCEPT ![c] =
       IF @ = "closing" /\ busy[c] = {n} THEN "gone" ELSE @]

\* The connection closes and drops the answers it has not sent.
Close(c, unsent) ==
  /\ phase[c] = "open" /\ unsent \subseteq busy[c]
  /\ busy' = [busy EXCEPT ![c] = @ \ unsent]
  /\ phase' = [phase EXCEPT ![c] = IF busy[c] = unsent THEN "gone" ELSE "closing"]

Next ==
  \E c \in Conn :
    \/ Open(c)
    \/ \E n \in Node : Acquire(c, n) \/ Release(c, n)
    \/ \E unsent \in SUBSET Node : Close(c, unsent)

Spec == Init /\ [][Next]_vars
=============================================================================
