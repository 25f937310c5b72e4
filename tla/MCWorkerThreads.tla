--------------------------- MODULE MCWorkerThreads ---------------------------
(* Small instances of WorkerThreads: the threads of config.conf with two    *)
(* workers (worker_n task threads and worker_n worker threads).             *)
EXTENDS WorkerThreads

CONSTANTS ns1, task1, task2, cli1, worker1, worker2

MCThread == {ns1, task1, task2, cli1, worker1, worker2}

MCStage == [t \in MCThread |->
  CASE t = ns1 -> 1 [] t \in {task1, task2} -> 2 [] t = cli1 -> 3 [] OTHER -> 4]
=============================================================================
