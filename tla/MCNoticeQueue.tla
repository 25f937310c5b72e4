---------------------------- MODULE MCNoticeQueue ----------------------------
(* Small instances of NoticeQueue.                                          *)
EXTENDS NoticeQueue

CONSTANTS p1, p2

\* Two task threads that write back to different queues of the cli thread.
MCQueueOf == [p \in Producer |-> IF p = p1 THEN 1 ELSE QueueSize]
=============================================================================
