---------------------------- MODULE TcpServerProofs ----------------------------
(***************************************************************************)
(* The server uses its pool as the pool expects to be used, so that all    *)
(* that is proved of the pool holds of the server's; and the thread that   *)
(* listens leaves room for aMaxThreadNum handlers and no more, for any     *)
(* number of them and of connections.                                      *)
(***************************************************************************)
EXTENDS TcpServer, ThreadPoolProofs

-----------------------------------------------------------------------------
(* The invariant                                                           *)

\* A loop that has begun and not ended has a thread; one of the pool's is inside
\* the listening task.
LoopInv ==
    /\ loop /= "off" => loopThread \in Threads
    /\ loop = "off" => loopThread = NoThread
    /\ loopThread \in Workers /\ loop \notin {"off", "over"} =>
          worker[loopThread] = "running" /\ held[loopThread] = ListenTask

\* The loop begins once: in run, or when the task that run has posted is taken.
RunInv ==
    /\ run \in {"idle", "post"} => loop = "off" /\ fate[ListenTask] = "new"
    /\ fate[ListenTask] \in {"posting", "pending"} => loop = "off"

ServerInv == ServerTypeOK /\ LoopInv /\ RunInv

LEMMA ListenIsTask == ListenTask \in Tasks /\ ListenTask \notin Conns /\ Conns \subseteq Tasks
  BY ServerAssumption

LEMMA ServerInvInit == ServerInit => ServerInv
  BY ListenIsTask, NoTaskAssumption, ServerAssumption
  DEF ServerInit, Init, ServerInv, ServerTypeOK, LoopInv, RunInv, SocketState, LoopState, NoThread

-----------------------------------------------------------------------------
(* Every step is one of the pool's or leaves the pool alone                *)

LEMMA ServerStepIsPool == ServerInv /\ [ServerNext]_vars => [Next]_poolVars
<1> SUFFICES ASSUME ServerInv, [ServerNext]_vars PROVE [Next]_poolVars
  OBVIOUS
<1>1. Main \in Threads
  BY ServerAssumption DEF Threads
<1>2. loop \in {"post", "posting"} => loopThread \in Threads
  BY DEF ServerInv, LoopInv
<1>3. loop = "post" => accepted \in Tasks
  BY ListenIsTask DEF ServerInv, ServerTypeOK
<1>4. CASE RunPost
  BY <1>1, <1>4, ListenIsTask DEF RunPost, Next, PostStep
<1>5. CASE LoopPost
  BY <1>2, <1>3, <1>5 DEF LoopPost, Next, PostStep
<1>6. ASSUME NEW w \in Workers,
             Take(w) \/ HandlerReturn(w) \/ ListenReturn(w) \/ PoolThread(w) \/ SpuriousWake(w)
      PROVE  Next
  BY <1>6 DEF Take, HandlerReturn, ListenReturn, PoolThread, SpuriousWake, WorkerStep, Next
<1>7. CASE StopStep
  BY <1>7 DEF StopStep, StopClose, StopJoin, StopReturn, DtorStep, Next
<1>8. CASE Destroy \/ DestroyStep
  BY <1>8 DEF Destroy, DestroyStep, Next
<1>9. CASE \/ \E b \in BOOLEAN : Run(b)
           \/ RunReturns \/ AcceptFailsOnce \/ StopTerminate
           \/ \E c \in Conns : Connect(c) \/ Accept(c)
           \/ LoopCheck \/ AcceptFails \/ LoopRecheck
  BY <1>9 DEF Run, RunReturns, AcceptFailsOnce, StopTerminate, Connect, Accept, LoopCheck,
     AcceptFails, LoopRecheck
<1>10. CASE UNCHANGED vars
  BY <1>10 DEF vars
<1> QED
  BY <1>4, <1>5, <1>6, <1>7, <1>8, <1>9, <1>10 DEF ServerNext, LoopStep

-----------------------------------------------------------------------------
(* The steps that keep ServerInv                                           *)

\* The pool moves and the server does not: what its listener holds must stay.
LEMMA PoolMoves ==
    ASSUME ServerInv, UNCHANGED serverVars,
           fate'[ListenTask] = fate[ListenTask] \/ (loop /= "off" /\ fate'[ListenTask] = "done"),
           loopThread \in Workers /\ loop /= "over" /\ worker[loopThread] = "running"
                 /\ held[loopThread] = ListenTask =>
              worker'[loopThread] = "running" /\ held'[loopThread] = ListenTask
    PROVE  ServerInv'
  BY DEF ServerInv, ServerTypeOK, LoopInv, RunInv, serverVars

LEMMA RunKeeps ==
    ASSUME CoreInv, ServerInv, NEW b \in BOOLEAN, Run(b)
    PROVE  ServerInv'
<1>1. Main \in Threads /\ Main \notin Workers
  BY ServerAssumption, ClientsAssumption, SizesAssumption DEF Threads, Workers, MaxWorkers
<1> QED
  BY <1>1, ServerAssumption
  DEF Run, ServerInv, ServerTypeOK, LoopInv, RunInv, poolVars, SocketState, LoopState

\* What stands in loop, run, stop and the socket, while the pool stands still.
LEMMA ServerMoves ==
    ASSUME ServerInv,
           \/ RunReturns \/ AcceptFailsOnce \/ StopTerminate
           \/ \E c \in Conns : Connect(c) \/ Accept(c)
           \/ LoopCheck \/ AcceptFails \/ LoopRecheck \/ StopClose
    PROVE  ServerInv'
<1> USE DEF ServerInv, ServerTypeOK, LoopInv, RunInv, poolVars, SocketState, LoopState
<1>1. CASE RunReturns BY <1>1 DEF RunReturns
<1>2. CASE AcceptFailsOnce BY <1>2 DEF AcceptFailsOnce
<1>3. CASE StopTerminate BY <1>3 DEF StopTerminate
<1>4. ASSUME NEW c \in Conns, Connect(c) PROVE ServerInv'
  BY <1>4 DEF Connect
<1>5. ASSUME NEW c \in Conns, Accept(c) PROVE ServerInv'
  BY <1>5 DEF Accept
<1>6. CASE LoopCheck BY <1>6 DEF LoopCheck
<1>7. CASE AcceptFails BY <1>7 DEF AcceptFails
<1>8. CASE LoopRecheck BY <1>8 DEF LoopRecheck
<1>9. CASE StopClose BY <1>9 DEF StopClose
<1> QED BY <1>1, <1>2, <1>3, <1>4, <1>5, <1>6, <1>7, <1>8, <1>9

\* postTask moves no worker that runs.
LEMMA PostingLeaves ==
    ASSUME CoreInv, NEW th \in Threads, NEW w \in Workers, worker[w] = "running",
           PostEnqueue(th) \/ PostNotify(th)
    PROVE  worker'[w] = "running" /\ held'[w] = held[w]
<1>1. worker \in [Workers -> WorkerState] /\ iWorkerCount \in Nat
  BY SizesAssumption DEF CoreInv, TypeOK, MaxWorkers
<1>2. w <= iWorkerCount
  BY <1>1, SizesAssumption DEF CoreInv, BirthInv, Workers, MaxWorkers
<1>3. CASE PostEnqueue(th)
  <2>1. iWorkerCount + 1 /= w
    BY <1>1, <1>2, SizesAssumption DEF Workers, MaxWorkers
  <2> QED BY <1>1, <1>3, <2>1 DEF PostEnqueue
<1>4. CASE PostNotify(th)
  BY <1>1, <1>4 DEF PostNotify, WakeAll
<1> QED BY <1>3, <1>4

\* Enqueuing takes a task that is being posted.
LEMMA PostingFate ==
    ASSUME CoreInv, NEW th \in Threads, PostEnqueue(th)
    PROVE  \/ fate'[ListenTask] = fate[ListenTask]
           \/ fate[ListenTask] = "posting" /\ fate'[ListenTask] = "pending"
<1>1. fate \in [Tasks -> Fate] /\ fate[callTask[th]] = "posting" /\ callTask[th] \in Tasks
  BY DEF CoreInv, TypeOK, CallInv, PostEnqueue
<1> QED BY <1>1, ListenIsTask DEF PostEnqueue

LEMMA RunPostKeeps ==
    ASSUME CoreInv, ServerInv, RunPost
    PROVE  ServerInv'
<1>1. Main \in Threads /\ fate \in [Tasks -> Fate]
  BY ServerAssumption DEF Threads, CoreInv, TypeOK
<1>2. UNCHANGED <<iServerTerminated, socket, backlog, loop, loopThread, accepted, stop>>
  BY DEF RunPost
<1>3. run' \in {"posting", "returned"}
  BY DEF RunPost
<1>4. ServerTypeOK'
  BY <1>2, <1>3 DEF ServerInv, ServerTypeOK
<1>5. fate'[ListenTask] \in {"posting", "pending"} => loop = "off"
  <2>1. CASE run = "post" /\ PostCheck(Main, ListenTask)
    BY <2>1 DEF ServerInv, RunInv
  <2>2. CASE PostEnqueue(Main)
    BY <1>1, <2>2, PostingFate DEF ServerInv, RunInv
  <2>3. CASE PostNotify(Main)
    BY <2>3 DEF PostNotify, ServerInv, RunInv
  <2> QED BY <2>1, <2>2, <2>3 DEF RunPost
<1>6. \A w \in Workers : worker[w] = "running" => worker'[w] = "running" /\ held'[w] = held[w]
  BY <1>1, PostingLeaves DEF RunPost, PostCheck, workerVars
<1> QED BY <1>2, <1>3, <1>4, <1>5, <1>6 DEF ServerInv, LoopInv, RunInv

LEMMA LoopPostKeeps ==
    ASSUME CoreInv, ServerInv, LoopPost
    PROVE  ServerInv'
<1>1. /\ loopThread \in Threads /\ accepted \in Conns /\ loop \in {"post", "posting"}
      /\ fate \in [Tasks -> Fate]
  BY DEF LoopPost, ServerInv, ServerTypeOK, LoopInv, CoreInv, TypeOK
<1>2. UNCHANGED <<iServerTerminated, socket, backlog, loopThread, run, stop>>
  BY DEF LoopPost
<1>3. loop' \in {"check", "posting"} /\ accepted' = IF loop' = "check" THEN NoTask ELSE accepted
  BY DEF LoopPost
<1>4. ServerTypeOK'
  BY <1>1, <1>2, <1>3 DEF ServerInv, ServerTypeOK, LoopState
<1>5. fate'[ListenTask] \notin {"posting", "pending"}
  <2>1. CASE PostCheck(loopThread, accepted)
    BY <1>1, <2>1, ListenIsTask DEF PostCheck, ServerInv, RunInv
  <2>2. CASE PostEnqueue(loopThread)
    BY <1>1, <2>2, PostingFate DEF ServerInv, RunInv
  <2>3. CASE PostNotify(loopThread)
    BY <1>1, <2>3 DEF PostNotify, ServerInv, RunInv
  <2> QED BY <2>1, <2>2, <2>3 DEF LoopPost
<1>6. \A w \in Workers : worker[w] = "running" => worker'[w] = "running" /\ held'[w] = held[w]
  BY <1>1, PostingLeaves DEF LoopPost, PostCheck, workerVars
<1>7. run \notin {"idle", "post"}
  BY <1>1 DEF ServerInv, RunInv
<1> QED BY <1>1, <1>2, <1>3, <1>4, <1>5, <1>6, <1>7 DEF ServerInv, LoopInv, RunInv

LEMMA TakeKeeps ==
    ASSUME CoreInv, ServerInv, NEW w \in Workers, Take(w)
    PROVE  ServerInv'
<1> DEFINE t == Head(iPendingTaskList)
<1>1. /\ t \in Tasks /\ fate[t] = "pending"
      /\ fate \in [Tasks -> Fate]
      /\ worker \in [Workers -> WorkerState] /\ held \in [Workers -> Tasks \cup {NoTask}]
  <2>1. iPendingTaskList \in Seq(Tasks) /\ iPendingTaskList /= << >>
    BY DEF Take, WorkerTake, CoreInv, TypeOK
  <2>2. t = iPendingTaskList[1] /\ t \in Tasks /\ 1 \in 1 .. Len(iPendingTaskList)
    BY <2>1
  <2> QED BY <2>2 DEF CoreInv, TypeOK, TaskInOnePlace
<1>2. /\ worker' = [worker EXCEPT ![w] = "running"]
      /\ held' = [held EXCEPT ![w] = t]
      /\ fate' = [fate EXCEPT ![t] = "running"]
      /\ worker[w] /= "running"
  BY DEF Take, WorkerTake, AtQueue
<1>3. CASE t = ListenTask
  <2>1. loop = "off" /\ run \notin {"idle", "post"} /\ accepted = NoTask
    BY <1>1, <1>3 DEF ServerInv, ServerTypeOK, RunInv
  <2>2. loop' = "check" /\ loopThread' = w
        /\ UNCHANGED <<iServerTerminated, socket, backlog, accepted, run, stop>>
    BY <1>3 DEF Take
  <2>3. worker'[w] = "running" /\ held'[w] = ListenTask /\ fate'[ListenTask] = "running"
    BY <1>1, <1>2, <1>3
  <2>4. w \in Threads
    BY DEF Threads
  <2> QED BY <2>1, <2>2, <2>3, <2>4 DEF ServerInv, ServerTypeOK, LoopInv, RunInv, LoopState
<1>4. CASE t /= ListenTask
  <2>1. UNCHANGED serverVars
    BY <1>4 DEF Take, serverVars
  <2>2. fate'[ListenTask] = fate[ListenTask]
    BY <1>1, <1>2, <1>4, ListenIsTask
  <2>3. \A v \in Workers : worker[v] = "running" => worker'[v] = "running" /\ held'[v] = held[v]
    BY <1>1, <1>2
  <2> QED BY <2>1, <2>2, <2>3, PoolMoves
<1> QED BY <1>3, <1>4

LEMMA ReturnKeeps ==
    ASSUME CoreInv, ServerInv, NEW w \in Workers, HandlerReturn(w) \/ ListenReturn(w)
    PROVE  ServerInv'
<1>1. /\ fate \in [Tasks -> Fate]
      /\ worker \in [Workers -> WorkerState] /\ held \in [Workers -> Tasks \cup {NoTask}]
      /\ worker[w] = "running" => held[w] \in Tasks
  BY DEF CoreInv, TypeOK, HeldInv
<1>2. /\ worker' = [worker EXCEPT ![w] = "finishing"] /\ held' = held
      /\ fate' = [fate EXCEPT ![held[w]] = "done"]
      /\ held[w] \in Tasks
      /\ UNCHANGED serverVars
  BY <1>1 DEF HandlerReturn, ListenReturn, TaskReturn
<1>3. CASE held[w] /= ListenTask
  <2>1. fate'[ListenTask] = fate[ListenTask]
    BY <1>1, <1>2, <1>3, ListenIsTask
  <2> QED BY <1>1, <1>2, <1>3, <2>1, PoolMoves
<1>4. CASE loop = "over" /\ held[w] = ListenTask
  <2>1. fate'[ListenTask] = "done"
    BY <1>1, <1>2, <1>4, ListenIsTask
  <2> QED BY <1>2, <1>4, <2>1, PoolMoves
<1> QED BY <1>3, <1>4 DEF HandlerReturn, ListenReturn

\* The other steps of workers and of the owner.
LEMMA OthersKeep ==
    ASSUME CoreInv, ServerInv,
           \/ \E w \in Workers : PoolThread(w) \/ SpuriousWake(w)
           \/ StopJoin \/ StopReturn \/ Destroy \/ DestroyStep
    PROVE  ServerInv'
<1>1. worker \in [Workers -> WorkerState] /\ held \in [Workers -> Tasks \cup {NoTask}]
  BY DEF CoreInv, TypeOK
<1>2. /\ fate' = fate
      /\ \A v \in Workers : worker[v] = "running" => worker'[v] = "running" /\ held'[v] = held[v]
  <2>1. ASSUME NEW w \in Workers, PoolThread(w) \/ SpuriousWake(w)
        PROVE  /\ fate' = fate
               /\ \A v \in Workers : worker[v] = "running" =>
                      worker'[v] = "running" /\ held'[v] = held[v]
    BY <1>1, <2>1 DEF PoolThread, SpuriousWake, WorkerExit, WorkerIdle, WorkerDone,
       SpuriousWakeup, AtQueue
  <2>2. CASE StopJoin \/ StopReturn \/ Destroy
    BY <2>2 DEF StopJoin, StopReturn, Destroy, JoinAll, JoinReturn, DtorTerminate, workerVars
  <2>3. CASE DestroyStep
    BY <2>3 DEF DestroyStep, DtorStep, DtorNotify, JoinNext, JoinReturn, WakeAll, workerVars
  <2> QED BY <2>1, <2>2, <2>3
<1>3. CASE StopJoin \/ StopReturn
  <2>1. UNCHANGED <<iServerTerminated, backlog, loop, loopThread, accepted, run>>
    BY <1>3 DEF StopJoin, StopReturn
  <2>2. stop' \in {"joining", "stopped"} /\ socket' \in {socket, "none"}
    BY <1>3 DEF StopJoin, StopReturn
  <2> QED BY <1>2, <2>1, <2>2 DEF ServerInv, ServerTypeOK, LoopInv, RunInv, SocketState
<1>4. CASE UNCHANGED serverVars
  BY <1>2, <1>4, PoolMoves
<1> QED BY <1>3, <1>4 DEF PoolThread, SpuriousWake, Destroy, DestroyStep

LEMMA ServerInvNext == CoreInv /\ ServerInv /\ [ServerNext]_vars => ServerInv'
<1> SUFFICES ASSUME CoreInv, ServerInv, [ServerNext]_vars PROVE ServerInv'
  OBVIOUS
<1>1. CASE UNCHANGED vars
  BY <1>1 DEF vars, poolVars, serverVars, ServerInv, ServerTypeOK, LoopInv, RunInv
<1>2. CASE ServerNext
  BY <1>2, RunKeeps, RunPostKeeps, ServerMoves, LoopPostKeeps, TakeKeeps, ReturnKeeps, OthersKeep
  DEF ServerNext, LoopStep, StopStep
<1> QED BY <1>1, <1>2

-----------------------------------------------------------------------------
\* The server uses its pool as the pool may be used: run, listenLoop, stop and the
\* destructor make no call that the pool's own specification does not allow.
THEOREM ServerIsPool == ServerSpec => Spec
<1>1. ServerInit => Init /\ ServerInv /\ CoreInv
  BY ServerInvInit, InitCore DEF ServerInit
<1>2. CoreInv /\ ServerInv /\ [ServerNext]_vars => CoreInv' /\ ServerInv' /\ [Next]_poolVars
  BY ServerInvNext, ServerStepIsPool, NextCore
<1> QED BY <1>1, <1>2, PTL DEF ServerSpec, Spec

LEMMA ServerInvariant == ServerSpec => [](CoreInv /\ ServerInv)
<1>1. ServerInit => ServerInv /\ CoreInv
  BY ServerInvInit, InitCore DEF ServerInit
<1>2. CoreInv /\ ServerInv /\ [ServerNext]_vars => CoreInv' /\ ServerInv'
  BY ServerInvNext, ServerStepIsPool, NextCore
<1> QED BY <1>1, <1>2, PTL DEF ServerSpec

\* Every variable of the server keeps its type, and listenLoop holds a connection
\* exactly between accept and the end of postTask.
THEOREM ServerTypes == ServerSpec => []ServerTypeOK
<1>1. ServerInv => ServerTypeOK BY DEF ServerInv
<1> QED BY <1>1, ServerInvariant, PTL

\* While listenLoop runs in the pool at most aMaxThreadNum handlers run beside it.
THEOREM HandlersLimited == ServerSpec => []HandlerLimit
<1>1. CoreInv /\ ServerInv => HandlerLimit
  <2> SUFFICES ASSUME CoreInv, ServerInv, loopThread \in Workers, loop /= "over"
               PROVE  Cardinality(Handlers) <= MaxThreadNum
    BY DEF HandlerLimit
  <2>1. loop /= "off"
    BY ServerAssumption DEF ServerInv, LoopInv, Threads
  <2>2. worker[loopThread] = "running" /\ held[loopThread] = ListenTask
    BY <2>1 DEF ServerInv, LoopInv
  <2>3. MaxWorkers = MaxThreadNum + 1 /\ iWorkerCount \in 0 .. MaxThreadNum + 1
    BY ServerAssumption DEF MaxWorkers, CoreInv, TypeOK
  <2>4. Handlers \subseteq (1 .. iWorkerCount) \ {loopThread} /\ loopThread \in 1 .. iWorkerCount
    BY <2>2, <2>3, ListenIsTask, ServerAssumption DEF Handlers, CoreInv, BirthInv, Workers
  <2>5. /\ IsFiniteSet(1 .. iWorkerCount)
        /\ Cardinality(1 .. iWorkerCount) = iWorkerCount
    BY <2>3, FS_Interval
  <2>6. /\ IsFiniteSet((1 .. iWorkerCount) \ {loopThread})
        /\ Cardinality((1 .. iWorkerCount) \ {loopThread}) = iWorkerCount - 1
    BY <2>4, <2>5, FS_RemoveElement
  <2>7. Cardinality(Handlers) <= Cardinality((1 .. iWorkerCount) \ {loopThread})
        /\ Cardinality(Handlers) \in Nat
    BY <2>4, <2>6, FS_Subset, FS_CardinalityType
  <2> QED BY <2>3, <2>6, <2>7, ServerAssumption
<1> QED BY <1>1, ServerInvariant, PTL
=============================================================================
