----------------------------- MODULE OutputChain -----------------------------
(***************************************************************************)
(* Sending a chain of buffers: chain_output and chain_output_with_limit    *)
(* (core/dfs_chain.cpp) over sysio_writev_chain and sysio_sendfile_chain   *)
(* (core/dfs_sysio.cpp).  A buffer is in memory or in a file and holds the *)
(* bytes pos .. last - 1, which are numbered in the order they are queued. *)
(* A system call may send less than it is given, or nothing.               *)
(***************************************************************************)
EXTENDS Integers, SequencesExt, FiniteSetsExt

CONSTANTS
  Chains,        \* what callers queue: sequences of Piece
  Limits,        \* limits of chain_output_with_limit, 0 for none
  MaxBytes,      \* bound on the bytes queued
  DFS_IOVS_MAX,
  DFS_MAX_LIMIT

Piece == [memory : BOOLEAN, joined : BOOLEAN, size : Nat]

\* No empty memory buffer stands right before a file or at the end of what is queued:
\* sysio_writev_chain gives up a chain when it packs nothing.
ASSUME OutputAssumption ==
  /\ Chains \subseteq Seq(Piece)
  /\ \A c \in Chains : \A k \in DOMAIN c :
       c[k].memory /\ c[k].size = 0 => k < Len(c) /\ c[k + 1].memory
  /\ Limits \subseteq Nat
  /\ DFS_IOVS_MAX \in Nat \ {0} /\ DFS_MAX_LIMIT \in Nat \ {0}

VARIABLES
  out,           \* ctx->out
  queued,        \* bytes ever queued
  wire,          \* the bytes the socket has taken, in order
  ready,         \* c->write->ready
  io,            \* idle, loop, writev, sendfile; error once a send has failed
  limit,         \* limit of the chain_output call, 0 for none; -1 for chain_output
  left,          \* cur_limit
  pack_limit,    \* limit of the send call
  packall_size,  \* ... and its packall_size, or sent
  base           \* bytes sent when the chain_output call began

oc_vars == <<out, queued, wire, ready, io, limit, left, pack_limit, packall_size, base>>

buffer_size(b) == b.last - b.pos

\* Sums(s)[k] is the sum of the first k of the numbers s.
Sums(s) ==
  LET sum[k \in 0 .. Len(s)] == IF k = 0 THEN 0 ELSE sum[k - 1] + s[k]
  IN  sum

\* Ends(c)[k]: how many bytes the first k buffers hold.
Ends(c) == Sums([k \in DOMAIN c |-> buffer_size(c[k])])

chain_size(c) == Ends(c)[Len(c)]

chain_empty(c) == \A k \in DOMAIN c : buffer_size(c[k]) <= 0

\* The chain a caller builds, its bytes numbered from n.
Numbered(c, n) ==
  LET end == Sums([k \in DOMAIN c |-> c[k].size])
  IN  [k \in DOMAIN c |-> [memory |-> c[k].memory, joined |-> c[k].joined,
                           pos |-> n + end[k - 1], last |-> n + end[k]]]

\* How many buffers chain_write_update passes: it stops at one of which some is left, and
\* before it looks at the next when nothing is left to count.
Passed(c, size) ==
  Min({k \in 0 .. Len(c) : k = Len(c) \/ Ends(c)[k] = size \/ size < Ends(c)[k + 1]})

\* Mutant of chain_write_update: the buffer the call stopped in is sent again as a whole.
chain_write_update_whole(c, size) == SubSeq(c, Passed(c, size) + 1, Len(c))

\* What is left of a chain of which size bytes are sent.
chain_write_update(c, size) ==
  LET k == Passed(c, size)
      rest == SubSeq(c, k + 1, Len(c))
  IN  IF rest = <<>> THEN rest
      ELSE <<[Head(rest) EXCEPT !.pos = @ + size - Ends(c)[k]]>> \o Tail(rest)

\* sysio_pack_chain_to_iovs: packall_size after packing memory buffers from the head of
\* the chain, as far as the iovecs and the limit go.  A buffer that is joined to the one
\* packed before it lies behind it in memory and needs no iovec of its own.
pack(c, size, lim) ==
  LET run == Min({k \in 0 .. Len(c) : k = Len(c) \/ ~c[k + 1].memory})
      filled[k \in 0 .. run] ==
        IF k = 0 THEN [n |-> 0, size |-> size]
        ELSE LET q == filled[k - 1]
             IN  IF q.n = DFS_IOVS_MAX \/ q.size >= lim \/ buffer_size(c[k]) <= 0 THEN q
                 ELSE [n |-> IF c[k].joined /\ q.n > 0 THEN q.n ELSE q.n + 1,
                       size |-> IF q.size + buffer_size(c[k]) > lim THEN lim
                                ELSE q.size + buffer_size(c[k])]
  IN  filled[run].size

OcInit ==
  /\ out = <<>> /\ queued = 0 /\ wire = <<>> /\ ready = TRUE /\ io = "idle"
  /\ limit = -1 /\ left = 0 /\ pack_limit = 0 /\ packall_size = 0 /\ base = 0

\* chain_append_all of chain_output, or the chain is queued before
\* chain_output_with_limit; then the call.
chain_output(c, lim) ==
  /\ io = "idle"
  /\ LET in == Numbered(c, queued)
     IN /\ queued + chain_size(in) <= MaxBytes
        /\ queued' = queued + chain_size(in)
        /\ out' = out \o in
        /\ io' = IF lim = -1 /\ chain_empty(out') THEN "idle" ELSE "loop"
  /\ limit' = lim
  /\ left' = IF lim = -1 THEN 0 ELSE lim
  /\ base' = Len(wire)
  /\ UNCHANGED <<wire, ready, pack_limit, packall_size>>

\* The loop over the chain ends, or hands its head to one of the two senders.
output_ends ==
  /\ io = "loop" /\ (~ready \/ out = <<>>)
  /\ io' = "idle"
  /\ UNCHANGED <<out, queued, wire, ready, limit, left, pack_limit, packall_size, base>>

output_sends ==
  /\ io = "loop" /\ ready /\ out # <<>>
  /\ io' = IF Head(out).memory THEN "writev" ELSE "sendfile"
  /\ pack_limit' = IF left = 0 \/ left > DFS_MAX_LIMIT THEN DFS_MAX_LIMIT ELSE left
  /\ packall_size' = 0
  /\ UNCHANGED <<out, queued, wire, ready, limit, left, base>>

\* A sender returns the rest of the chain.  With a limit, the bytes sent lower it, and
\* the loop ends when it is used up.
sent_back(rest, w, rd) ==
  /\ out' = rest /\ wire' = w /\ ready' = rd
  /\ IF limit > 0 /\ rd
     THEN /\ left' = limit - (Len(w) - base)
          /\ io' = IF left' <= 0 THEN "idle" ELSE "loop"
     ELSE io' = "loop" /\ left' = left

send_fails ==
  /\ io' = "error"
  /\ UNCHANGED <<out, queued, wire, ready, limit, left, pack_limit, packall_size, base>>

\* k bytes go out, from the positions the buffers are at.
Bytes(c, k) ==
  [i \in 1 .. k |-> LET b == Min({j \in 1 .. Len(c) : i <= Ends(c)[j]})
                    IN  c[b].pos + i - 1 - Ends(c)[b - 1]]

\* sysio_writev_chain, from one writev to the next
writev_step ==
  /\ io = "writev"
  /\ IF out = <<>> \/ packall_size >= pack_limit
     THEN sent_back(out, wire, ready) /\ UNCHANGED packall_size
     ELSE IF ~Head(out).memory
     THEN sent_back(out, wire, ready) /\ UNCHANGED packall_size
     ELSE LET packed == pack(out, packall_size, pack_limit)
          IN IF packed = packall_size
             THEN sent_back(<<>>, wire, ready) /\ UNCHANGED packall_size
             ELSE \/ \E k \in 1 .. packed - packall_size :
                       LET rest == chain_write_update(out, k)
                       IN IF packed >= pack_limit
                          THEN /\ sent_back(rest, wire \o Bytes(out, k), ready)
                               /\ UNCHANGED packall_size
                          ELSE /\ out' = rest /\ wire' = wire \o Bytes(out, k)
                               /\ packall_size' = packed
                               /\ UNCHANGED <<ready, io, left>>
                  \/ sent_back(out, wire, FALSE) /\ UNCHANGED packall_size
  /\ UNCHANGED <<queued, limit, pack_limit, base>>

writev_fails == /\ io = "writev" /\ out # <<>> /\ send_fails

\* sysio_sendfile_chain, from one sendfile to the next
sendfile_step ==
  /\ io = "sendfile"
  /\ IF out = <<>> \/ packall_size >= pack_limit
     THEN sent_back(out, wire, ready) /\ UNCHANGED packall_size
     ELSE IF Head(out).memory
     THEN sent_back(out, wire, ready) /\ UNCHANGED packall_size
     ELSE IF buffer_size(Head(out)) = 0
     THEN out' = Tail(out) /\ UNCHANGED <<wire, ready, io, left, packall_size>>
     ELSE LET most == IF packall_size + buffer_size(Head(out)) > pack_limit
                      THEN pack_limit - packall_size ELSE buffer_size(Head(out))
          IN \/ \E k \in 1 .. most :
                  /\ out' = chain_write_update(out, k)
                  /\ wire' = wire \o Bytes(out, k)
                  /\ packall_size' = packall_size + k
                  /\ UNCHANGED <<ready, io, left>>
             \/ sent_back(out, wire, FALSE) /\ UNCHANGED packall_size
  /\ UNCHANGED <<queued, limit, pack_limit, base>>

\* sendfile fails or returns 0
sendfile_fails == /\ io = "sendfile" /\ out # <<>> /\ send_fails

\* The epoll reports the socket writable again.
writable == /\ io = "idle" /\ ~ready
            /\ ready' = TRUE
            /\ UNCHANGED <<out, queued, wire, io, limit, left, pack_limit, packall_size, base>>

OcNext ==
  \/ \E c \in Chains, lim \in Limits \cup {-1} : chain_output(c, lim)
  \/ output_ends \/ output_sends
  \/ writev_step \/ writev_fails \/ sendfile_step \/ sendfile_fails
  \/ writable

OcSpec == OcInit /\ [][OcNext]_oc_vars

-----------------------------------------------------------------------------
\* However the system calls cut it up, what the socket has taken is the beginning of what
\* was queued, and the chain holds the rest in order: no byte is sent twice or skipped.
SentInOrder ==
  io # "error" =>
    /\ wire = [k \in 1 .. Len(wire) |-> k - 1]
    /\ Len(wire) + chain_size(out) = queued
    /\ \A k \in DOMAIN out : out[k].pos = Len(wire) + chain_size(SubSeq(out, 1, k - 1))

\* One call of chain_output_with_limit sends no more than its limit.
LimitKept == limit > 0 => Len(wire) - base <= limit

\* A call of chain_output_with_limit sends the next bytes of what was queued, each once,
\* and stops at its limit.
OutputSound == SentInOrder /\ LimitKept
=============================================================================
