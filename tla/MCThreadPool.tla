---------------------------- MODULE MCThreadPool ----------------------------
(***************************************************************************)
(* A small instance of ThreadPool: two threads outside the pool and three  *)
(* tasks, each of which may post others while it runs; the pool grows from *)
(* no worker, as TcpServer creates it, to two.                             *)
(***************************************************************************)
EXTENDS ThreadPool

CONSTANTS t1, t2, t3, c1, c2

MCTasks == {t1, t2, t3}
MCClients == {c1, c2}
MCInitialSize == 0
MCCapacity == 2
=============================================================================
