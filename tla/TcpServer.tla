------------------------------ MODULE TcpServer ------------------------------
(***************************************************************************)
(* src/net/TcpServer.{h,cpp} on top of its ThreadPool.                     *)
(*                                                                         *)
(* run opens the listening socket and either runs listenLoop itself or     *)
(* posts it to the pool as a task; listenLoop posts one task for every     *)
(* connection it accepts.  stop raises the server's iTerminated, closes    *)
(* the listening socket and joins the pool's threads.  The handler         *)
(* onClientAccepted is the user's: a task that returns at some time.       *)
(***************************************************************************)
EXTENDS ThreadPool

CONSTANTS Conns,         \* the connections that clients ever open
          ListenTask,    \* the task that runs listenLoop
          Main,          \* the thread that calls run
          MaxThreadNum   \* aMaxThreadNum

NoThread == NoTask

ASSUME ServerAssumption ==
    /\ MaxThreadNum \in Nat \ {0}
    /\ Tasks = Conns \cup {ListenTask}
    /\ ListenTask \notin Conns
    /\ NoThread \notin Threads
    /\ Clients = {Main}
    /\ InitialSize = 0
    /\ Capacity = MaxThreadNum + 1

VARIABLES
    iServerTerminated,   \* TcpServer::iTerminated
    socket,              \* iListeningSocket
    backlog,             \* connections the kernel holds for accept
    loop,                \* where listenLoop stands
    loopThread,          \* the thread that runs it
    accepted,            \* clientSocket in listenLoop
    run,                 \* where run stands
    stop                 \* where stop stands

serverVars == <<iServerTerminated, socket, backlog, loop, loopThread, accepted,
                run, stop>>

vars == <<poolVars, serverVars>>

\* "deaf": bind or listen failed, which run does not look at.
SocketState == {"none", "open", "deaf", "closed"}

\* "accept": about to call iListeningSocket->accept(), or inside it; "crashed":
\* that call found the pointer reset by stop, and the process is gone (nothing
\* else of the server was running then: stop joins the pool first).
LoopState == {"off", "check", "accept", "recheck", "post", "posting", "over",
              "crashed"}

ServerInit ==
    /\ Init
    /\ iServerTerminated = TRUE
    /\ socket = "none"
    /\ backlog = {}
    /\ loop = "off"
    /\ loopThread = NoThread
    /\ accepted = NoTask
    /\ run = "idle"
    /\ stop = "none"

-----------------------------------------------------------------------------
(* run                                                                     *)

Run(aBlocking) ==
    /\ run = "idle"
    /\ ~iTerminated
    /\ iServerTerminated' = FALSE
    /\ socket' \in {"open", "deaf"}
    /\ IF aBlocking
         THEN /\ loop' = "check"
              /\ loopThread' = Main
              /\ run' = "inLoop"
         ELSE /\ run' = "post"
              /\ UNCHANGED <<loop, loopThread>>
    /\ UNCHANGED <<poolVars, backlog, accepted, stop>>

\* The calls of postTask for listenLoop.
RunPost ==
    /\ \/ /\ run = "post"
          /\ PostCheck(Main, ListenTask)
          /\ run' = "posting"
       \/ /\ run = "posting"
          /\ PostEnqueue(Main)
          /\ run' = run
       \/ /\ run = "posting"
          /\ PostNotify(Main)
          /\ run' = "returned"
    /\ UNCHANGED <<iServerTerminated, socket, backlog, loop, loopThread,
                   accepted, stop>>

-----------------------------------------------------------------------------
(* listenLoop                                                              *)

\* A client connects; the kernel queues it while the socket listens.
Connect(c) ==
    /\ socket = "open"
    /\ fate[c] = "new"
    /\ c \notin backlog /\ c /= accepted
    /\ backlog' = backlog \cup {c}
    /\ UNCHANGED <<poolVars, iServerTerminated, socket, loop, loopThread,
                   accepted, run, stop>>

LoopCheck ==
    /\ loop = "check"
    /\ loop' = IF iServerTerminated THEN "over" ELSE "accept"
    /\ UNCHANGED <<poolVars, iServerTerminated, socket, backlog, loopThread,
                   accepted, run, stop>>

Accept(c) ==
    /\ loop = "accept"
    /\ socket = "open"
    /\ c \in backlog
    /\ accepted' = c
    /\ backlog' = backlog \ {c}
    /\ loop' = "recheck"
    /\ UNCHANGED <<poolVars, iServerTerminated, socket, loopThread, run, stop>>

\* accept fails on a socket that does not listen, or is closed while it waits:
\* the loop ends.  When stop has released the socket already, a loop that was
\* waiting in accept ends, one that was about to call it dereferences null.
AcceptFails ==
    /\ loop = "accept"
    /\ socket /= "open"
    /\ loop' \in IF socket = "none" THEN {"over", "crashed"} ELSE {"over"}
    /\ UNCHANGED <<poolVars, iServerTerminated, socket, backlog, loopThread,
                   accepted, run, stop>>

\* accept may also fail once on a good socket (no descriptor left, connection
\* aborted by the peer): that ends the loop, too.
AcceptFailsOnce ==
    /\ loop = "accept"
    /\ socket = "open"
    /\ loop' = "over"
    /\ UNCHANGED <<poolVars, iServerTerminated, socket, backlog, loopThread,
                   accepted, run, stop>>

\* Mutant of LoopRecheck: the connection accepted during stop is kept.
LoopRecheckKeeps ==
    /\ loop = "recheck"
    /\ loop' = IF iServerTerminated THEN "check" ELSE "post"
    /\ UNCHANGED <<poolVars, iServerTerminated, socket, backlog, loopThread,
                   accepted, run, stop>>

\* When stop came during accept the connection is dropped.
LoopRecheck ==
    /\ loop = "recheck"
    /\ IF iServerTerminated
         THEN loop' = "check" /\ accepted' = NoTask
         ELSE loop' = "post" /\ UNCHANGED accepted
    /\ UNCHANGED <<poolVars, iServerTerminated, socket, backlog, loopThread,
                   run, stop>>

\* postTask for onClientAccepted.
LoopPost ==
    /\ \/ /\ loop = "post"
          /\ PostCheck(loopThread, accepted)
          /\ loop' = IF iTerminated THEN "check" ELSE "posting"
       \/ /\ loop = "posting"
          /\ PostEnqueue(loopThread)
          /\ loop' = loop
       \/ /\ loop = "posting"
          /\ PostNotify(loopThread)
          /\ loop' = "check"
    /\ accepted' = IF loop' = "check" THEN NoTask ELSE accepted
    /\ UNCHANGED <<iServerTerminated, socket, backlog, loopThread, run, stop>>

\* run(true) returns with the loop.
RunReturns ==
    /\ run = "inLoop"
    /\ loop = "over"
    /\ run' = "returned"
    /\ UNCHANGED <<poolVars, iServerTerminated, socket, backlog, loop,
                   loopThread, accepted, stop>>

-----------------------------------------------------------------------------
(* the pool's threads                                                      *)

\* Mutant of Take: a worker that listens is not counted as working, so the
\* pool does not spawn for the first connection.
TakeListenUncounted(w) ==
    /\ AtQueue(w)
    /\ ~iTerminated
    /\ iPendingTaskList /= << >>
    /\ held' = [held EXCEPT ![w] = Head(iPendingTaskList)]
    /\ fate' = [fate EXCEPT ![Head(iPendingTaskList)] = "running"]
    /\ iPendingTaskList' = Tail(iPendingTaskList)
    /\ worker' = [worker EXCEPT ![w] = "running"]
    /\ IF Head(iPendingTaskList) = ListenTask
         THEN loop' = "check" /\ loopThread' = w /\ UNCHANGED iWorkingCount
         ELSE iWorkingCount' = iWorkingCount + 1 /\ UNCHANGED <<loop, loopThread>>
    /\ UNCHANGED <<iWorkerCount, callVars, ownerVars, iServerTerminated, socket,
                   backlog, accepted, run, stop>>

\* A worker that takes the listening task enters listenLoop.
Take(w) ==
    /\ WorkerTake(w)
    /\ IF Head(iPendingTaskList) = ListenTask
         THEN loop' = "check" /\ loopThread' = w
         ELSE UNCHANGED <<loop, loopThread>>
    /\ UNCHANGED <<iServerTerminated, socket, backlog, accepted, run, stop>>

\* The listening task returns when the loop ends, a handler when it likes.
HandlerReturn(w) == held[w] /= ListenTask /\ TaskReturn(w) /\ UNCHANGED serverVars

ListenReturn(w) ==
    /\ held[w] = ListenTask
    /\ loop = "over"
    /\ TaskReturn(w)
    /\ UNCHANGED serverVars

PoolThread(w) ==
    /\ WorkerExit(w) \/ WorkerIdle(w) \/ WorkerDone(w)
    /\ UNCHANGED serverVars

SpuriousWake(w) == SpuriousWakeup(w) /\ UNCHANGED serverVars

-----------------------------------------------------------------------------
(* stop and the destructor                                                 *)

\* Any thread may stop a server that has been started.
StopTerminate ==
    /\ run \in {"inLoop", "returned"}
    /\ stop = "none"
    /\ owner = "alive"
    /\ iServerTerminated' = TRUE
    /\ stop' = "close"
    /\ UNCHANGED <<poolVars, socket, backlog, loop, loopThread, accepted, run>>

\* Mutant of StopClose: the socket is left open.
StopNoClose ==
    /\ stop = "close"
    /\ stop' = "join"
    /\ UNCHANGED <<poolVars, iServerTerminated, socket, backlog, loop,
                   loopThread, accepted, run>>

\* Closing also takes down what the kernel queued.
StopClose ==
    /\ stop = "close"
    /\ socket' = "closed"
    /\ backlog' = {}
    /\ stop' = "join"
    /\ UNCHANGED <<poolVars, iServerTerminated, loop, loopThread, accepted, run>>

StopJoin ==
    /\ stop = "join"
    /\ JoinAll
    /\ stop' = "joining"
    /\ UNCHANGED <<iServerTerminated, socket, backlog, loop, loopThread,
                   accepted, run>>

\* joinAll is over; the socket is released.  This takes a pool that has no thread
\* yet: the loop of joinAll waits for its first thread otherwise, and a thread
\* ends only when the pool is destroyed, which nobody does to a server whose stop
\* has not returned.  So JoinNext has no action of its own here.
StopReturn ==
    /\ stop = "joining"
    /\ JoinReturn
    /\ socket' = "none"
    /\ stop' = "stopped"
    /\ UNCHANGED <<iServerTerminated, backlog, loop, loopThread, accepted, run>>

\* The server's destructor is empty; its pool is destroyed.  Nobody uses the
\* server from outside then.
Destroy ==
    /\ run \in {"idle", "returned"}
    /\ stop \in {"none", "stopped"}
    /\ DtorTerminate
    /\ UNCHANGED serverVars

DestroyStep ==
    /\ iTerminated
    /\ DtorStep
    /\ UNCHANGED serverVars

-----------------------------------------------------------------------------
LoopStep == LoopCheck \/ AcceptFails \/ LoopRecheck \/ LoopPost

StopStep == StopClose \/ StopJoin \/ StopReturn

ServerNext ==
    \/ \E b \in BOOLEAN : Run(b)
    \/ RunPost
    \/ RunReturns
    \/ \E c \in Conns : Connect(c) \/ Accept(c)
    \/ LoopStep
    \/ AcceptFailsOnce
    \/ \E w \in Workers : \/ Take(w)
                          \/ HandlerReturn(w)
                          \/ ListenReturn(w)
                          \/ PoolThread(w)
                          \/ SpuriousWake(w)
    \/ StopTerminate
    \/ StopStep
    \/ Destroy
    \/ DestroyStep

\* Threads that can run do, handlers return; accept returns when there is a
\* connection or the socket is gone.  Nobody is obliged to connect, to stop or
\* to destroy.
ServerFairness ==
    /\ WF_vars(RunPost)
    /\ WF_vars(RunReturns)
    /\ WF_vars(LoopStep)
    /\ WF_vars(\E c \in Conns : Accept(c))
    /\ \A w \in Workers : WF_vars(Take(w) \/ PoolThread(w))
    /\ \A w \in Workers : WF_vars(HandlerReturn(w) \/ ListenReturn(w))
    /\ WF_vars(StopStep)
    /\ WF_vars(DestroyStep)

ServerSpec == ServerInit /\ [][ServerNext]_vars /\ ServerFairness

-----------------------------------------------------------------------------
\* Every variable keeps its type; listenLoop holds a connection exactly between
\* accept and the end of postTask.
ServerTypeOK ==
    /\ iServerTerminated \in BOOLEAN
    /\ socket \in SocketState
    /\ backlog \subseteq Conns
    /\ loop \in LoopState
    /\ loopThread \in Threads \cup {NoThread}
    /\ accepted \in IF loop \in {"recheck", "post", "posting"} THEN Conns
                                                             ELSE {NoTask}
    /\ run \in {"idle", "post", "posting", "inLoop", "returned"}
    /\ stop \in {"none", "close", "join", "joining", "stopped"}

Handlers == {w \in Workers : worker[w] = "running" /\ held[w] \in Conns}

\* The extra thread of the pool is for listening: while listenLoop runs in the
\* pool at most aMaxThreadNum handlers run beside it.
HandlerLimit ==
    loopThread \in Workers /\ loop /= "over" => Cardinality(Handlers) <= MaxThreadNum

\* A loop that runs in the pool ends once stop has raised iTerminated and closed
\* the socket under it, wherever the loop stood.
StopEndsLoop ==
    (stop = "join" /\ loopThread /= Main) ~> (loop \in {"off", "over"})

\* While handlers return, every connection the loop has posted is handled,
\* though one worker is taken by the loop itself and the pool spawns on demand.
PostedConnHandled ==
    \A c \in Conns : (fate[c] = "pending") ~> (fate[c] = "done" \/ iTerminated)

\* "Stop listening" (TcpServer.cpp:86): a call of stop comes back.
StopReturns == (stop = "close") ~> (stop = "stopped")
=============================================================================
