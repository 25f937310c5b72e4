-------------------------------- MODULE Heap --------------------------------
(***************************************************************************)
(* What a memory allocator of the core library promises its clients: the   *)
(* regions handed out lie inside the arena, never overlap, and stay the    *)
(* client's until the client gives them back, one region by a call.  Slabs *)
(* over Shmem is shown to implement it.                                    *)
(***************************************************************************)
EXTENDS Integers

CONSTANT Arena          \* the arena is the bytes 0 .. Arena - 1

VARIABLE regions        \* the regions clients hold: records [at, size]

Overlap(r, q) == r.at < q.at + q.size /\ q.at < r.at + r.size

HeapInit == regions = {}

(* A call answers with one region, clear of all the others.                *)
Grant == \E r \in regions' \ regions :
            /\ regions' = regions \cup {r}
            /\ r.at >= 0 /\ r.size > 0 /\ r.at + r.size <= Arena
            /\ \A q \in regions : ~ Overlap(r, q)

(* A client gives a region back.                                           *)
GiveBack == \E r \in regions : regions' = regions \ {r}

(* Every other call, a failed one included, leaves what clients hold.      *)
HeapSpec == HeapInit /\ [][Grant \/ GiveBack]_regions
=============================================================================
