----------------------------- MODULE MCTcpServer -----------------------------
(***************************************************************************)
(* A server for one handler at a time (so a pool of two threads) and two   *)
(* connections: one of them has to wait while the other is handled.        *)
(***************************************************************************)
EXTENDS TcpServer

CONSTANTS k1, k2

MCConns == {k1, k2}
MCTasks == {k1, k2, ListenTask}
MCClients == {Main}
MCInitialSize == 0
MCMaxThreadNum == 1
MCCapacity == 2
=============================================================================
