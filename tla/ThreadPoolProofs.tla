--------------------------- MODULE ThreadPoolProofs ---------------------------
(***************************************************************************)
(* Theorems about ThreadPool for any tasks, clients and sizes.             *)
(*                                                                         *)
(* The invariants that the runs check are not inductive by themselves.     *)
(* CoreInv adds what they rest on: which entries of the worker vector have *)
(* a thread, what a thread inside postTask holds, who holds a started      *)
(* task, how far joinAll has come, and that clients are gone once the      *)
(* destructor has begun.                                                   *)
(***************************************************************************)
EXTENDS ThreadPool, FiniteSetTheorems, TLAPS

-----------------------------------------------------------------------------
\* Exactly the first iWorkerCount entries of the list have a thread.
BirthInv == \A w \in Workers : (worker[w] = "unborn") <=> (w > iWorkerCount)

\* A thread inside postTask has a task of its own; a worker posts only from
\* inside the task it runs.
CallInv ==
    /\ \A th \in Threads : call[th] /= "none" => callTask[th] \in Tasks
    /\ \A th \in Threads : call[th] = "checked" => fate[callTask[th]] = "posting"
    /\ \A th, u \in Threads :
          (call[th] = "checked" /\ call[u] = "checked" /\ callTask[th] = callTask[u])
             => th = u
    /\ \A w \in Workers : call[w] /= "none" => worker[w] = "running"

\* A working worker holds a task, and a running task has a worker.
HeldInv ==
    /\ \A w \in Workers : worker[w] \in {"running", "finishing"} => held[w] \in Tasks
    /\ \A w \in Workers : worker[w] = "finishing" => fate[held[w]] = "done"
    /\ \A t \in Tasks : fate[t] = "running" =>
          \E w \in Workers : worker[w] = "running" /\ held[w] = t

\* The destructor has the pool for itself: no client is in postTask.
OwnerInv ==
    /\ owner \in {"notify", "destroyed"} => iTerminated
    /\ iTerminated => owner /= "alive" /\ \A c \in Clients : call[c] = "none"

\* The workers before joinIdx are joined; on return they are all workers.
JoinInv ==
    owner \in {"joining", "destroyed"} =>
        /\ joinIdx <= iWorkerCount
        /\ \A w \in Workers : w <= joinIdx => worker[w] = "exited"
        /\ owner = "destroyed" => joinIdx = iWorkerCount

CoreInv ==
    /\ TypeOK
    /\ BirthInv
    /\ CallInv
    /\ HeldInv
    /\ TaskInOnePlace
    /\ NoLostWakeup
    /\ OwnerInv
    /\ JoinInv
-----------------------------------------------------------------------------
(* Every step preserves CoreInv: one lemma per action, one step per conjunct. *)

USE DEF CoreInv

\* The look at iTerminated gives the caller a task nobody else has.
LEMMA PostCheckCore ==
    ASSUME CoreInv, NEW th \in Threads, NEW t \in Tasks, PostCheck(th, t)
    PROVE  CoreInv'
<1>1. TypeOK'
  BY DEF TypeOK, PostCheck, workerVars, ownerVars, callVars, CallState, Fate
<1>2. BirthInv'
  BY DEF BirthInv, PostCheck, workerVars
<1>3. CallInv'
  <2>1. CASE iTerminated
    BY <2>1 DEF TypeOK, CallInv, PostCheck, callVars, workerVars, Workers
  <2>2. CASE ~iTerminated
    <3>1. /\ call' = [call EXCEPT ![th] = "checked"]
          /\ callTask' = [callTask EXCEPT ![th] = t]
          /\ fate' = [fate EXCEPT ![t] = "posting"]
          /\ fate[t] = "new"
          /\ worker' = worker
      BY <2>2 DEF PostCheck, workerVars
    <3>2. \A u \in Threads : call[u] = "checked" => callTask[u] /= t
      BY <3>1 DEF CallInv
    <3>3. \A u \in Threads : callTask'[u] = IF u = th THEN t ELSE callTask[u]
      BY <3>1 DEF TypeOK
    <3>4. \A u \in Threads : call'[u] = IF u = th THEN "checked" ELSE call[u]
      BY <3>1 DEF TypeOK
    <3>5. \A u \in Threads : call[u] = "checked" => fate'[callTask[u]] = "posting"
      BY <3>1 DEF TypeOK, CallInv
    <3>6. fate'[t] = "posting"
      BY <3>1 DEF TypeOK
    <3>7. th \in Workers => worker[th] = "running"
      BY ClientsAssumption DEF PostCheck, MayPost, Workers
    <3>8. Workers \subseteq Threads
      BY DEF Threads
    <3> QED BY <3>1, <3>2, <3>3, <3>4, <3>5, <3>6, <3>7, <3>8 DEF CallInv
  <2> QED BY <2>1, <2>2
<1>4. HeldInv'
  <2>1. /\ worker' = worker /\ held' = held
        /\ fate[t] = "new"
        /\ \/ fate' = [fate EXCEPT ![t] = "refused"]
           \/ fate' = [fate EXCEPT ![t] = "posting"]
    BY DEF PostCheck, workerVars
  <2>2. \A u \in Tasks : /\ fate[u] = "done" => fate'[u] = "done"
                         /\ fate'[u] = "running" => fate[u] = "running"
    BY <2>1 DEF TypeOK
  <2> QED BY <2>1, <2>2 DEF HeldInv
<1>5. TaskInOnePlace'
  BY DEF TypeOK, TaskInOnePlace, PostCheck, workerVars, Working, HeldInv
<1>6. NoLostWakeup'
  BY DEF TypeOK, NoLostWakeup, PostCheck, workerVars, ownerVars, callVars,
         MayPost
<1>7. OwnerInv'
  BY DEF TypeOK, OwnerInv, PostCheck, ownerVars, callVars
<1>8. JoinInv'
  BY DEF JoinInv, PostCheck, workerVars, ownerVars
<1> QED BY <1>1, <1>2, <1>3, <1>4, <1>5, <1>6, <1>7, <1>8

\* The locked section of postTask: the worker it spawns is the next of the
\* list, and the caller owes a notification from here on.
LEMMA PostEnqueueCore ==
    ASSUME CoreInv, NEW th \in Threads, PostEnqueue(th)
    PROVE  CoreInv'
<1>1. TypeOK'
  <2>1. callTask[th] \in Tasks
    BY DEF PostEnqueue, CallInv
  <2>2. /\ iWorkerCount' \in 0 .. MaxWorkers
        /\ worker' \in [Workers -> WorkerState]
    BY SizesAssumption
    DEF PostEnqueue, MustSpawn, TypeOK, MaxWorkers, WorkerState
  <2>3. iPendingTaskList' \in Seq(Tasks)
    BY <2>1 DEF PostEnqueue, TypeOK
  <2>4. fate' \in [Tasks -> Fate]
    BY DEF PostEnqueue, TypeOK, Fate
  <2>5. call' \in [Threads -> CallState]
    BY DEF PostEnqueue, TypeOK, CallState
  <2> QED
    BY <2>2, <2>3, <2>4, <2>5 DEF TypeOK, PostEnqueue, ownerVars
<1>2. BirthInv'
  BY SizesAssumption
  DEF TypeOK, BirthInv, PostEnqueue, MustSpawn, Workers, MaxWorkers
<1>3. CallInv'
  BY DEF TypeOK, CallInv, PostEnqueue, MustSpawn, BirthInv
<1>4. HeldInv'
  <2> DEFINE t == callTask[th]
  <2>1. /\ t \in Tasks
        /\ fate[t] = "posting"
        /\ fate' = [fate EXCEPT ![t] = "pending"]
        /\ held' = held
    BY DEF PostEnqueue, CallInv
  <2>2. \A u \in Tasks : /\ fate[u] = "done" => fate'[u] = "done"
                         /\ fate'[u] = "running" => fate[u] = "running"
    BY <2>1 DEF TypeOK
  <2>3. \A w \in Workers : worker[w] /= "unborn" => worker'[w] = worker[w]
    BY DEF PostEnqueue, MustSpawn, TypeOK, BirthInv
  <2>4. \A w \in Workers : worker'[w] = worker[w] \/ worker'[w] = "loop"
    BY DEF PostEnqueue, TypeOK
  <2> HIDE DEF t
  <2> QED BY <2>1, <2>2, <2>3, <2>4 DEF HeldInv
<1>5. TaskInOnePlace'
  <2> DEFINE t == callTask[th]
  <2>1. /\ t \in Tasks
        /\ fate[t] = "posting"
        /\ fate' = [fate EXCEPT ![t] = "pending"]
        /\ held' = held
    BY DEF PostEnqueue, CallInv
  <2>2. \A w \in Workers : worker'[w] = worker[w] \/ worker'[w] = "loop"
    BY DEF PostEnqueue, TypeOK
  <2>3. iPendingTaskList' = Append(iPendingTaskList, t)
    BY DEF PostEnqueue
  <2>4. /\ Len(iPendingTaskList') = Len(iPendingTaskList) + 1
        /\ \A i \in 1 .. Len(iPendingTaskList) :
              iPendingTaskList'[i] = iPendingTaskList[i]
        /\ iPendingTaskList'[Len(iPendingTaskList) + 1] = t
        /\ Len(iPendingTaskList) \in Nat
    BY <2>1, <2>3 DEF TypeOK
  <2>5. \A u \in Tasks : u /= t => fate'[u] = fate[u]
    BY <2>1 DEF TypeOK
  <2>6. fate'[t] = "pending"
    BY <2>1 DEF TypeOK
  <2>7. \A i \in 1 .. Len(iPendingTaskList) :
           iPendingTaskList[i] /= t /\ iPendingTaskList[i] \in Tasks
    BY <2>1 DEF TaskInOnePlace, TypeOK
  <2>8. \A w \in Workers : worker[w] \in {"running"} => held[w] /= t /\ held[w] \in Tasks
    BY <2>1 DEF TaskInOnePlace, HeldInv
  <2>9. Working' \subseteq Working
    BY <2>2 DEF Working
  <2> HIDE DEF t
  <2>10. \A i, j \in 1 .. Len(iPendingTaskList') :
           iPendingTaskList'[i] = iPendingTaskList'[j] => i = j
    BY <2>4, <2>7 DEF TaskInOnePlace
  <2>11. \A i \in 1 .. Len(iPendingTaskList') :
           fate'[iPendingTaskList'[i]] = "pending"
    BY <2>4, <2>5, <2>6, <2>7 DEF TaskInOnePlace
  <2>12. \A w \in Workers : worker'[w] = "running" => fate'[held'[w]] = "running"
    BY <2>1, <2>2, <2>5, <2>8 DEF TaskInOnePlace
  <2>13. \A v, w \in Working' : held'[v] = held'[w] => v = w
    BY <2>1, <2>9 DEF TaskInOnePlace
  <2> QED BY <2>10, <2>11, <2>12, <2>13 DEF TaskInOnePlace
<1>6. NoLostWakeup'
  <2>1. call'[th] = "queued"
    BY DEF PostEnqueue, TypeOK
  <2>2. \A w \in Workers : worker'[w] = worker[w] \/ worker'[w] = "loop"
    BY DEF PostEnqueue, TypeOK
  <2>3. iTerminated' = iTerminated /\ owner' = owner
    BY DEF PostEnqueue, ownerVars
  <2> QED BY <2>1, <2>2, <2>3 DEF NoLostWakeup
<1>7. OwnerInv'
  BY DEF TypeOK, OwnerInv, PostEnqueue, ownerVars, MustSpawn
<1>8. JoinInv'
  BY SizesAssumption
  DEF TypeOK, JoinInv, PostEnqueue, ownerVars, MustSpawn, OwnerInv,
      BirthInv, CallInv, Workers, MaxWorkers, Threads
<1> QED BY <1>1, <1>2, <1>3, <1>4, <1>5, <1>6, <1>7, <1>8

\* notify_all empties the wait set.
LEMMA PostNotifyCore ==
    ASSUME CoreInv, NEW th \in Threads, PostNotify(th)
    PROVE  CoreInv'
<1>1. TypeOK'
  BY DEF TypeOK, PostNotify, ownerVars, WorkerState, CallState, WakeAll
<1>2. BirthInv'
  BY DEF TypeOK, BirthInv, PostNotify, WakeAll
<1>3. CallInv'
  BY DEF TypeOK, CallInv, PostNotify, WakeAll
<1>4. HeldInv'
  BY DEF TypeOK, HeldInv, PostNotify, WakeAll
<1>5. TaskInOnePlace'
  BY DEF TypeOK, TaskInOnePlace, PostNotify, Working, WakeAll
<1>6. NoLostWakeup'
  BY DEF TypeOK, NoLostWakeup, PostNotify, ownerVars, WakeAll
<1>7. OwnerInv'
  BY DEF TypeOK, OwnerInv, PostNotify, ownerVars, WakeAll
<1>8. JoinInv'
  BY DEF TypeOK, JoinInv, PostNotify, ownerVars, WakeAll
<1> QED BY <1>1, <1>2, <1>3, <1>4, <1>5, <1>6, <1>7, <1>8

\* A worker leaves only when the pool is terminated.
LEMMA WorkerExitCore ==
    ASSUME CoreInv, NEW w \in Workers, WorkerExit(w)
    PROVE  CoreInv'
<1>1. TypeOK'
  BY DEF TypeOK, WorkerExit, callVars, ownerVars, WorkerState
<1>2. BirthInv'
  BY DEF TypeOK, BirthInv, WorkerExit, AtQueue
<1>3. CallInv'
  BY DEF TypeOK, CallInv, WorkerExit, callVars, AtQueue
<1>4. HeldInv'
  BY DEF TypeOK, HeldInv, WorkerExit, AtQueue
<1>5. TaskInOnePlace'
  BY DEF TypeOK, TaskInOnePlace, WorkerExit, Working, AtQueue
<1>6. NoLostWakeup'
  BY DEF TypeOK, NoLostWakeup, WorkerExit, callVars, ownerVars, AtQueue
<1>7. OwnerInv'
  BY DEF OwnerInv, WorkerExit, callVars, ownerVars
<1>8. JoinInv'
  BY DEF TypeOK, JoinInv, WorkerExit, ownerVars, AtQueue
<1> QED BY <1>1, <1>2, <1>3, <1>4, <1>5, <1>6, <1>7, <1>8

\* The front of the list moves from the list to one worker.
LEMMA WorkerTakeCore ==
    ASSUME CoreInv, NEW w \in Workers, WorkerTake(w)
    PROVE  CoreInv'
<1>1. TypeOK'
  BY DEF TypeOK, WorkerTake, callVars, ownerVars, WorkerState, Fate
<1>2. BirthInv'
  BY DEF TypeOK, BirthInv, WorkerTake, AtQueue
<1>3. CallInv'
  BY DEF TypeOK, CallInv, WorkerTake, callVars, AtQueue, TaskInOnePlace
<1>4. HeldInv'
  BY DEF TypeOK, HeldInv, WorkerTake, AtQueue, TaskInOnePlace
<1>5. TaskInOnePlace'
  <2> DEFINE t == Head(iPendingTaskList)
             n == Len(iPendingTaskList)
  <2>1. /\ iPendingTaskList /= << >>
        /\ iPendingTaskList' = Tail(iPendingTaskList)
        /\ fate' = [fate EXCEPT ![t] = "running"]
        /\ held' = [held EXCEPT ![w] = t]
        /\ worker' = [worker EXCEPT ![w] = "running"]
    BY DEF WorkerTake
  <2>2. /\ n \in Nat \ {0}
        /\ t = iPendingTaskList[1] /\ t \in Tasks
        /\ Len(iPendingTaskList') = n - 1
        /\ \A i \in 1 .. n - 1 : iPendingTaskList'[i] = iPendingTaskList[i + 1]
        /\ \A i \in 1 .. n : iPendingTaskList[i] \in Tasks
    BY <2>1 DEF TypeOK
  <2>3. fate[t] = "pending"
    BY <2>2 DEF TaskInOnePlace
  <2>4. \A u \in Tasks : fate'[u] = IF u = t THEN "running" ELSE fate[u]
    BY <2>1, <2>2 DEF TypeOK
  <2>5. \A v \in Workers : /\ held'[v] = IF v = w THEN t ELSE held[v]
                           /\ worker'[v] = IF v = w THEN "running" ELSE worker[v]
    BY <2>1 DEF TypeOK
  <2>6. \A v \in Workers : worker[v] \in {"running", "finishing"} =>
           held[v] \in Tasks /\ held[v] /= t
    BY <2>3 DEF HeldInv, TaskInOnePlace
  <2> HIDE DEF t, n
  <2>7. \A i, j \in 1 .. Len(iPendingTaskList') :
           iPendingTaskList'[i] = iPendingTaskList'[j] => i = j
    BY <2>2 DEF TaskInOnePlace, n
  <2>8. \A i \in 1 .. Len(iPendingTaskList') :
           fate'[iPendingTaskList'[i]] = "pending"
    BY <2>2, <2>4 DEF TaskInOnePlace, n
  <2>9. \A v \in Workers : worker'[v] = "running" => fate'[held'[v]] = "running"
    BY <2>2, <2>4, <2>5, <2>6 DEF TaskInOnePlace
  <2>10. \A u, v \in Working' : held'[u] = held'[v] => u = v
    BY <2>5, <2>6 DEF TaskInOnePlace, Working
  <2> QED BY <2>7, <2>8, <2>9, <2>10 DEF TaskInOnePlace
<1>6. NoLostWakeup'
  BY DEF TypeOK, NoLostWakeup, WorkerTake, callVars, ownerVars, AtQueue
<1>7. OwnerInv'
  BY DEF OwnerInv, WorkerTake, callVars, ownerVars
<1>8. JoinInv'
  BY DEF TypeOK, JoinInv, WorkerTake, ownerVars, AtQueue
<1> QED BY <1>1, <1>2, <1>3, <1>4, <1>5, <1>6, <1>7, <1>8

\* A worker goes to sleep only beside an empty list, before termination.
LEMMA WorkerIdleCore ==
    ASSUME CoreInv, NEW w \in Workers, WorkerIdle(w)
    PROVE  CoreInv'
<1>1. TypeOK'
  BY DEF TypeOK, WorkerIdle, callVars, ownerVars, WorkerState
<1>2. BirthInv'
  BY DEF TypeOK, BirthInv, WorkerIdle, AtQueue
<1>3. CallInv'
  BY DEF TypeOK, CallInv, WorkerIdle, callVars, AtQueue
<1>4. HeldInv'
  BY DEF TypeOK, HeldInv, WorkerIdle, AtQueue
<1>5. TaskInOnePlace'
  BY DEF TypeOK, TaskInOnePlace, WorkerIdle, Working, AtQueue
<1>6. NoLostWakeup'
  BY DEF TypeOK, NoLostWakeup, WorkerIdle, callVars, ownerVars, AtQueue
<1>7. OwnerInv'
  BY DEF OwnerInv, WorkerIdle, callVars, ownerVars
<1>8. JoinInv'
  BY DEF TypeOK, JoinInv, WorkerIdle, ownerVars, AtQueue
<1> QED BY <1>1, <1>2, <1>3, <1>4, <1>5, <1>6, <1>7, <1>8

\* A wakeup for no reason takes a worker out of the wait set.
LEMMA SpuriousWakeupCore ==
    ASSUME CoreInv, NEW w \in Workers, SpuriousWakeup(w)
    PROVE  CoreInv'
<1>1. TypeOK'
  BY DEF TypeOK, SpuriousWakeup, callVars, ownerVars, WorkerState
<1>2. BirthInv'
  BY DEF TypeOK, BirthInv, SpuriousWakeup
<1>3. CallInv'
  BY DEF TypeOK, CallInv, SpuriousWakeup, callVars
<1>4. HeldInv'
  BY DEF TypeOK, HeldInv, SpuriousWakeup
<1>5. TaskInOnePlace'
  BY DEF TypeOK, TaskInOnePlace, SpuriousWakeup, Working
<1>6. NoLostWakeup'
  BY DEF TypeOK, NoLostWakeup, SpuriousWakeup, callVars, ownerVars
<1>7. OwnerInv'
  BY DEF OwnerInv, SpuriousWakeup, callVars, ownerVars
<1>8. JoinInv'
  BY DEF TypeOK, JoinInv, SpuriousWakeup, ownerVars
<1> QED BY <1>1, <1>2, <1>3, <1>4, <1>5, <1>6, <1>7, <1>8

\* A task that returns has no worker that runs it any more.
LEMMA TaskReturnCore ==
    ASSUME CoreInv, NEW w \in Workers, TaskReturn(w)
    PROVE  CoreInv'
<1>1. TypeOK'
  BY DEF TypeOK, TaskReturn, callVars, ownerVars, WorkerState, Fate
<1>2. BirthInv'
  BY DEF TypeOK, BirthInv, TaskReturn
<1>3. CallInv'
  BY DEF TypeOK, CallInv, TaskReturn, callVars, TaskInOnePlace
<1>4. HeldInv'
  BY DEF TypeOK, HeldInv, TaskReturn
<1>5. TaskInOnePlace'
  BY DEF TypeOK, TaskInOnePlace, TaskReturn, Working
<1>6. NoLostWakeup'
  BY DEF TypeOK, NoLostWakeup, TaskReturn, callVars, ownerVars
<1>7. OwnerInv'
  BY DEF OwnerInv, TaskReturn, callVars, ownerVars
<1>8. JoinInv'
  BY DEF TypeOK, JoinInv, TaskReturn, ownerVars
<1> QED BY <1>1, <1>2, <1>3, <1>4, <1>5, <1>6, <1>7, <1>8

\* The worker gives the task back.
LEMMA WorkerDoneCore ==
    ASSUME CoreInv, NEW w \in Workers, WorkerDone(w)
    PROVE  CoreInv'
<1>1. TypeOK'
  BY DEF TypeOK, WorkerDone, callVars, ownerVars, WorkerState
<1>2. BirthInv'
  BY DEF TypeOK, BirthInv, WorkerDone
<1>3. CallInv'
  BY DEF TypeOK, CallInv, WorkerDone, callVars
<1>4. HeldInv'
  BY DEF TypeOK, HeldInv, WorkerDone
<1>5. TaskInOnePlace'
  BY DEF TypeOK, TaskInOnePlace, WorkerDone, Working
<1>6. NoLostWakeup'
  BY DEF TypeOK, NoLostWakeup, WorkerDone, callVars, ownerVars
<1>7. OwnerInv'
  BY DEF OwnerInv, WorkerDone, callVars, ownerVars
<1>8. JoinInv'
  BY DEF TypeOK, JoinInv, WorkerDone, ownerVars
<1> QED BY <1>1, <1>2, <1>3, <1>4, <1>5, <1>6, <1>7, <1>8

\* The destructor begins without clients, and owes a notification.
LEMMA DtorTerminateCore ==
    ASSUME CoreInv, DtorTerminate
    PROVE  CoreInv'
<1>1. TypeOK'
  BY DEF TypeOK, DtorTerminate, workerVars, callVars, OwnerState
<1>2. BirthInv'
  BY DEF BirthInv, DtorTerminate, workerVars
<1>3. CallInv'
  BY DEF CallInv, DtorTerminate, workerVars, callVars
<1>4. HeldInv'
  BY DEF HeldInv, DtorTerminate, workerVars
<1>5. TaskInOnePlace'
  BY DEF TaskInOnePlace, DtorTerminate, workerVars, Working
<1>6. NoLostWakeup'
  BY DEF TypeOK, NoLostWakeup, DtorTerminate, workerVars, callVars
<1>7. OwnerInv'
  BY DEF TypeOK, OwnerInv, DtorTerminate, callVars
<1>8. JoinInv'
  BY DEF TypeOK, JoinInv, DtorTerminate, workerVars
<1> QED BY <1>1, <1>2, <1>3, <1>4, <1>5, <1>6, <1>7, <1>8

\* The destructor's notify_all.
LEMMA DtorNotifyCore ==
    ASSUME CoreInv, DtorNotify
    PROVE  CoreInv'
<1>1. TypeOK'
  BY SizesAssumption
  DEF TypeOK, DtorNotify, callVars, WorkerState, OwnerState, WakeAll,
      MaxWorkers
<1>2. BirthInv'
  BY DEF TypeOK, BirthInv, DtorNotify, WakeAll
<1>3. CallInv'
  BY DEF TypeOK, CallInv, DtorNotify, callVars, WakeAll
<1>4. HeldInv'
  BY DEF TypeOK, HeldInv, DtorNotify, WakeAll
<1>5. TaskInOnePlace'
  BY DEF TypeOK, TaskInOnePlace, DtorNotify, Working, WakeAll
<1>6. NoLostWakeup'
  BY DEF TypeOK, NoLostWakeup, DtorNotify, callVars, WakeAll
<1>7. OwnerInv'
  BY DEF TypeOK, OwnerInv, DtorNotify, callVars, WakeAll
<1>8. JoinInv'
  BY DEF TypeOK, JoinInv, DtorNotify, WakeAll
<1> QED BY <1>1, <1>2, <1>3, <1>4, <1>5, <1>6, <1>7, <1>8

\* joinAll begins with the first worker.
LEMMA JoinAllCore ==
    ASSUME CoreInv, JoinAll
    PROVE  CoreInv'
<1>1. TypeOK'
  BY SizesAssumption
  DEF TypeOK, JoinAll, workerVars, callVars, OwnerState, MaxWorkers
<1>2. BirthInv'
  BY DEF BirthInv, JoinAll, workerVars
<1>3. CallInv'
  BY DEF CallInv, JoinAll, workerVars, callVars
<1>4. HeldInv'
  BY DEF HeldInv, JoinAll, workerVars
<1>5. TaskInOnePlace'
  BY DEF TaskInOnePlace, JoinAll, workerVars, Working
<1>6. NoLostWakeup'
  BY DEF TypeOK, NoLostWakeup, JoinAll, workerVars, callVars
<1>7. OwnerInv'
  BY DEF TypeOK, OwnerInv, JoinAll, callVars
<1>8. JoinInv'
  BY DEF TypeOK, JoinInv, JoinAll, workerVars, Workers
<1> QED BY <1>1, <1>2, <1>3, <1>4, <1>5, <1>6, <1>7, <1>8

\* joinAll goes on behind a worker that is gone.
LEMMA JoinNextCore ==
    ASSUME CoreInv, JoinNext
    PROVE  CoreInv'
<1>1. TypeOK'
  BY SizesAssumption
  DEF TypeOK, JoinNext, workerVars, callVars, MaxWorkers
<1>2. BirthInv'
  BY DEF BirthInv, JoinNext, workerVars
<1>3. CallInv'
  BY DEF CallInv, JoinNext, workerVars, callVars
<1>4. HeldInv'
  BY DEF HeldInv, JoinNext, workerVars
<1>5. TaskInOnePlace'
  BY DEF TaskInOnePlace, JoinNext, workerVars, Working
<1>6. NoLostWakeup'
  BY DEF NoLostWakeup, JoinNext, workerVars, callVars
<1>7. OwnerInv'
  BY DEF OwnerInv, JoinNext, callVars
<1>8. JoinInv'
  BY SizesAssumption
  DEF TypeOK, JoinInv, JoinNext, workerVars, Workers, MaxWorkers
<1> QED BY <1>1, <1>2, <1>3, <1>4, <1>5, <1>6, <1>7, <1>8

\* joinAll returns behind the last worker.
LEMMA JoinReturnCore ==
    ASSUME CoreInv, JoinReturn
    PROVE  CoreInv'
<1>1. TypeOK'
  BY DEF TypeOK, JoinReturn, workerVars, callVars, OwnerState
<1>2. BirthInv'
  BY DEF BirthInv, JoinReturn, workerVars
<1>3. CallInv'
  BY DEF CallInv, JoinReturn, workerVars, callVars
<1>4. HeldInv'
  BY DEF HeldInv, JoinReturn, workerVars
<1>5. TaskInOnePlace'
  BY DEF TaskInOnePlace, JoinReturn, workerVars, Working
<1>6. NoLostWakeup'
  BY DEF TypeOK, NoLostWakeup, JoinReturn, workerVars, callVars
<1>7. OwnerInv'
  BY DEF TypeOK, OwnerInv, JoinReturn, callVars
<1>8. JoinInv'
  BY DEF TypeOK, JoinInv, JoinReturn, workerVars
<1> QED BY <1>1, <1>2, <1>3, <1>4, <1>5, <1>6, <1>7, <1>8

-----------------------------------------------------------------------------
\* A pool just constructed.
LEMMA InitCore == Init => CoreInv
<1> SUFFICES ASSUME Init PROVE CoreInv
  OBVIOUS
<1>1. TypeOK
  <2>1. InitialSize \in 0 .. MaxWorkers /\ 0 \in 0 .. MaxWorkers
    BY SizesAssumption DEF MaxWorkers
  <2>2. [w \in Workers |-> IF w <= InitialSize THEN "loop" ELSE "unborn"]
           \in [Workers -> WorkerState]
    BY DEF WorkerState
  <2>3. /\ iWorkerCount \in 0 .. MaxWorkers /\ joinIdx \in 0 .. MaxWorkers
        /\ iWorkingCount \in Int /\ owner \in OwnerState
    BY <2>1 DEF Init, OwnerState
  <2>4. iPendingTaskList \in Seq(Tasks)
    BY DEF Init
  <2>5. iTerminated \in BOOLEAN
    BY DEF Init
  <2>6. /\ held \in [Workers -> Tasks \cup {NoTask}]
        /\ call \in [Threads -> CallState]
        /\ callTask \in [Threads -> Tasks \cup {NoTask}]
        /\ fate \in [Tasks -> Fate]
    BY DEF Init, CallState, Fate
  <2>7. worker \in [Workers -> WorkerState]
    BY <2>2 DEF Init
  <2> QED BY <2>3, <2>4, <2>5, <2>6, <2>7 DEF TypeOK
<1>2. BirthInv
  BY SizesAssumption DEF Init, BirthInv, Workers, MaxWorkers
<1>3. CallInv /\ HeldInv
  BY DEF Init, CallInv, HeldInv, Threads
<1>4. TaskInOnePlace
  BY DEF Init, TaskInOnePlace, Working
<1>5. NoLostWakeup /\ OwnerInv /\ JoinInv
  BY DEF Init, NoLostWakeup, OwnerInv, JoinInv
<1> QED BY <1>1, <1>2, <1>3, <1>4, <1>5

\* The steps together.
LEMMA NextCore == CoreInv /\ [Next]_poolVars => CoreInv'
<1> SUFFICES ASSUME CoreInv, [Next]_poolVars PROVE CoreInv'
  OBVIOUS
<1>1. CASE \E th \in Threads, t \in Tasks : PostCheck(th, t)
  BY <1>1, PostCheckCore
<1>2. CASE \E th \in Threads : PostStep(th)
  BY <1>2, PostEnqueueCore, PostNotifyCore DEF PostStep
<1>3. CASE \E w \in Workers : WorkerStep(w)
  BY <1>3, WorkerExitCore, WorkerTakeCore, WorkerIdleCore, WorkerDoneCore
  DEF WorkerStep
<1>4. CASE \E w \in Workers : TaskReturn(w) \/ SpuriousWakeup(w)
  BY <1>4, TaskReturnCore, SpuriousWakeupCore
<1>5. CASE DtorTerminate
  BY <1>5, DtorTerminateCore
<1>6. CASE JoinAll
  BY <1>6, JoinAllCore
<1>7. CASE DtorStep
  BY <1>7, DtorNotifyCore, JoinNextCore, JoinReturnCore DEF DtorStep
<1>8. CASE UNCHANGED poolVars
  BY <1>8
  DEF poolVars, TypeOK, BirthInv, CallInv, HeldInv, TaskInOnePlace,
      NoLostWakeup, OwnerInv, JoinInv, Working
<1> QED BY <1>1, <1>2, <1>3, <1>4, <1>5, <1>6, <1>7, <1>8 DEF Next

\* CoreInv holds in every state the pool can reach.
THEOREM CoreInvariant == Spec => []CoreInv
<1>1. Init => CoreInv
  BY InitCore
<1>2. CoreInv /\ [Next]_poolVars => CoreInv'
  BY NextCore
<1> QED BY <1>1, <1>2, PTL DEF Spec

\* Type correctness for all tasks, clients and sizes; the list of workers never
\* outgrows the larger of the two sizes given to the constructor.
THEOREM TypeCorrect == Spec => []TypeOK
<1>1. CoreInv => TypeOK
  OBVIOUS
<1> QED BY <1>1, CoreInvariant, PTL

\* No interleaving of postTask, doWork and the destructor loses a wakeup.
THEOREM WakeupsNotLost == Spec => []NoLostWakeup
<1>1. CoreInv => NoLostWakeup
  OBVIOUS
<1> QED BY <1>1, CoreInvariant, PTL

\* Each accepted task is in the list once or in the hands of one worker.
THEOREM TasksInOnePlace == Spec => []TaskInOnePlace
<1>1. CoreInv => TaskInOnePlace
  OBVIOUS
<1> QED BY <1>1, CoreInvariant, PTL

\* When the destructor has returned every worker has left doWork and nobody is
\* inside postTask, also when tasks went on posting while joinAll ran.
THEOREM DestroyedQuiet == Spec => []DestroyedIsQuiet
<1>1. CoreInv => DestroyedIsQuiet
  <2> SUFFICES ASSUME CoreInv, owner = "destroyed" PROVE DestroyedIsQuiet
    BY DEF DestroyedIsQuiet
  <2>1. \A w \in Born : worker[w] = "exited"
    BY SizesAssumption DEF JoinInv, TypeOK, Born, Workers, MaxWorkers
  <2>2. \A w \in Workers : worker[w] \in {"exited", "unborn"}
    BY <2>1, SizesAssumption DEF BirthInv, TypeOK, Born, Workers, MaxWorkers
  <2>3. \A w \in Workers : call[w] = "none"
    BY <2>2 DEF CallInv
  <2>4. \A c \in Clients : call[c] = "none"
    BY DEF OwnerInv
  <2> QED BY <2>1, <2>3, <2>4 DEF DestroyedIsQuiet, Threads
<1> QED BY <1>1, CoreInvariant, PTL

-----------------------------------------------------------------------------
(* iWorkingCount                                                           *)

\* The workers are finitely many.
LEMMA WorkingFinite == IsFiniteSet(Working) /\ Cardinality(Working) \in Nat
<1>1. IsFiniteSet(Workers)
  BY FS_Interval, SizesAssumption DEF Workers, MaxWorkers
<1>2. Working \in SUBSET Workers
  BY DEF Working
<1>3. IsFiniteSet(Working)
  BY <1>1, <1>2, FS_Subset
<1> QED BY <1>3, FS_CardinalityType

\* Each step that changes the set of working workers changes iWorkingCount by
\* as much.
LEMMA NextCount ==
    CoreInv /\ WorkingCountExact /\ [Next]_poolVars => WorkingCountExact'
<1> SUFFICES ASSUME CoreInv, WorkingCountExact, [Next]_poolVars
             PROVE  WorkingCountExact'
  OBVIOUS
<1>1. ASSUME NEW w \in Workers, WorkerTake(w) PROVE WorkingCountExact'
  <2>1. w \notin Working
    BY <1>1 DEF WorkerTake, AtQueue, Working
  <2>2. Working' = Working \cup {w}
    BY <1>1 DEF WorkerTake, Working, TypeOK
  <2>3. Cardinality(Working') = Cardinality(Working) + 1
    BY <2>1, <2>2, WorkingFinite, FS_AddElement
  <2> QED BY <1>1, <2>3 DEF WorkerTake, WorkingCountExact
<1>2. ASSUME NEW w \in Workers, WorkerDone(w) PROVE WorkingCountExact'
  <2>1. w \in Working
    BY <1>2 DEF WorkerDone, Working
  <2>2. Working' = Working \ {w}
    BY <1>2 DEF WorkerDone, Working, TypeOK
  <2>3. Cardinality(Working') = Cardinality(Working) - 1
    BY <2>1, <2>2, WorkingFinite, FS_RemoveElement
  <2> QED BY <1>2, <2>3 DEF WorkerDone, WorkingCountExact
<1>3. ASSUME iWorkingCount' = iWorkingCount, Working' = Working
      PROVE  WorkingCountExact'
  BY <1>3 DEF WorkingCountExact
<1>4. ASSUME NEW th \in Threads, NEW t \in Tasks, PostCheck(th, t)
      PROVE  WorkingCountExact'
  BY <1>3, <1>4 DEF PostCheck, workerVars, Working
<1>5. ASSUME NEW th \in Threads, PostEnqueue(th) PROVE WorkingCountExact'
  <2>1. \A w \in Workers : \/ worker'[w] = worker[w]
                           \/ worker[w] = "unborn" /\ worker'[w] = "loop"
    BY <1>5, SizesAssumption
    DEF PostEnqueue, MustSpawn, BirthInv, TypeOK, Workers, MaxWorkers
  <2>2. Working' = Working
    BY <2>1 DEF Working
  <2> QED BY <1>3, <1>5, <2>2 DEF PostEnqueue
<1>6. ASSUME NEW th \in Threads, PostNotify(th) PROVE WorkingCountExact'
  BY <1>3, <1>6 DEF PostNotify, WakeAll, Working, TypeOK
<1>7. ASSUME NEW w \in Workers, WorkerExit(w) PROVE WorkingCountExact'
  BY <1>3, <1>7 DEF WorkerExit, AtQueue, Working, TypeOK
<1>8. ASSUME NEW w \in Workers, WorkerIdle(w) PROVE WorkingCountExact'
  BY <1>3, <1>8 DEF WorkerIdle, AtQueue, Working, TypeOK
<1>9. ASSUME NEW w \in Workers, SpuriousWakeup(w) PROVE WorkingCountExact'
  BY <1>3, <1>9 DEF SpuriousWakeup, Working, TypeOK
<1>10. ASSUME NEW w \in Workers, TaskReturn(w) PROVE WorkingCountExact'
  BY <1>3, <1>10 DEF TaskReturn, Working, TypeOK
<1>11. ASSUME DtorNotify PROVE WorkingCountExact'
  BY <1>3, <1>11 DEF DtorNotify, WakeAll, Working, TypeOK
<1>12. ASSUME DtorTerminate \/ JoinAll \/ JoinNext \/ JoinReturn
       PROVE  WorkingCountExact'
  BY <1>3, <1>12
  DEF DtorTerminate, JoinAll, JoinNext, JoinReturn, workerVars, Working
<1>13. ASSUME UNCHANGED poolVars PROVE WorkingCountExact'
  BY <1>3, <1>13 DEF poolVars, Working
<1> QED
  BY <1>1, <1>2, <1>4, <1>5, <1>6, <1>7, <1>8, <1>9, <1>10, <1>11, <1>12, <1>13
  DEF Next, PostStep, WorkerStep, DtorStep

\* iWorkingCount always counts exactly the workers between taking a task and
\* handing it back, so the decision to spawn is taken on the true number.
THEOREM WorkingCountIsExact == Spec => []WorkingCountExact
<1>1. Init => CoreInv /\ WorkingCountExact
  <2> SUFFICES ASSUME Init PROVE WorkingCountExact
    BY InitCore
  <2>1. Working = {}
    BY DEF Init, Working
  <2> QED BY <2>1, FS_EmptySet DEF Init, WorkingCountExact
<1>2. CoreInv /\ WorkingCountExact /\ [Next]_poolVars
        => (CoreInv /\ WorkingCountExact)'
  BY NextCore, NextCount
<1> QED BY <1>1, <1>2, PTL DEF Spec

-----------------------------------------------------------------------------
(* Refinement of TaskQueue                                                 *)

\* A worker that is about to take a task finds fewer than MaxWorkers in
\* progress: each has a worker of its own, other than this one.
LEMMA RoomForOneMore ==
    ASSUME CoreInv, NEW w \in Workers, WorkerTake(w)
    PROVE  Cardinality({t \in Tasks : fate[t] = "running"}) < MaxWorkers
<1> DEFINE A == {t \in Tasks : fate[t] = "running"}
           R == {v \in Workers : worker[v] = "running"}
           f == [v \in R |-> held[v]]
<1>1. f \in Surjection(R, A)
  <2>1. f \in [R -> A]
    BY DEF HeldInv, TaskInOnePlace
  <2>2. \A t \in A : \E v \in R : f[v] = t
    BY DEF HeldInv
  <2> QED BY <2>1, <2>2 DEF Surjection
<1>2. R \in SUBSET ((1 .. iWorkerCount) \ {w}) /\ w \in 1 .. iWorkerCount
  BY SizesAssumption
  DEF WorkerTake, AtQueue, BirthInv, TypeOK, Workers, MaxWorkers
<1>3. /\ IsFiniteSet(1 .. iWorkerCount)
      /\ Cardinality(1 .. iWorkerCount) = iWorkerCount
      /\ iWorkerCount \in Nat
  <2>1. iWorkerCount \in Nat
    BY SizesAssumption DEF TypeOK, MaxWorkers
  <2> QED BY <2>1, FS_Interval
<1>4. /\ IsFiniteSet((1 .. iWorkerCount) \ {w})
      /\ Cardinality((1 .. iWorkerCount) \ {w}) = iWorkerCount - 1
  BY <1>2, <1>3, FS_RemoveElement
<1>5. IsFiniteSet(R) /\ Cardinality(R) <= iWorkerCount - 1
  BY <1>2, <1>4, FS_Subset
<1>6. IsFiniteSet(A) /\ Cardinality(A) <= Cardinality(R)
  <2> HIDE DEF A, R, f
  <2> QED BY <1>1, <1>5, FS_Surjection
<1>7. Cardinality(A) \in Nat /\ Cardinality(R) \in Nat
  <2> HIDE DEF A, R
  <2> QED BY <1>5, <1>6, FS_CardinalityType
<1>8. iWorkerCount <= MaxWorkers /\ MaxWorkers \in Nat
  BY SizesAssumption DEF TypeOK, MaxWorkers
<1> HIDE DEF A, R
<1>9. Cardinality(A) < MaxWorkers
  BY <1>3, <1>5, <1>6, <1>7, <1>8
<1> QED BY <1>9 DEF A

\* Every step of the pool is a step of TaskQueue or changes nothing in it.
LEMMA StepRefines ==
    CoreInv /\ [Next]_poolVars => [Service!Next]_Service!vars
<1> SUFFICES ASSUME CoreInv, [Next]_poolVars
             PROVE  [Service!Next]_Service!vars
  OBVIOUS
<1> DEFINE A == {t \in Tasks : fate[t] = "running"}
           D == {t \in Tasks : fate[t] = "done"}
<1>1. ASSUME iPendingTaskList' = iPendingTaskList, iTerminated' = iTerminated,
             A' = A, D' = D
      PROVE  UNCHANGED Service!vars
  BY <1>1 DEF Service!vars
<1>2. ASSUME NEW th \in Threads, NEW t \in Tasks, PostCheck(th, t)
      PROVE  UNCHANGED Service!vars
  <2>1. \A u \in Tasks : /\ (fate'[u] = "running") <=> (fate[u] = "running")
                         /\ (fate'[u] = "done") <=> (fate[u] = "done")
    BY <1>2 DEF PostCheck, TypeOK
  <2> QED BY <1>1, <1>2, <2>1 DEF PostCheck, ownerVars
<1>3. ASSUME NEW th \in Threads, PostEnqueue(th) PROVE Service!Next
  <2> DEFINE t == callTask[th]
  <2>1. /\ t \in Tasks /\ fate[t] = "posting"
        /\ fate' = [fate EXCEPT ![t] = "pending"]
        /\ iPendingTaskList' = Append(iPendingTaskList, t)
        /\ iTerminated' = iTerminated
    BY <1>3 DEF PostEnqueue, CallInv, ownerVars
  <2> HIDE DEF t
  <2>2. \A i \in 1 .. Len(iPendingTaskList) : iPendingTaskList[i] /= t
    BY <2>1 DEF TaskInOnePlace
  <2>3. t \notin Service!Queued \cup A \cup D
    BY <2>1, <2>2 DEF Service!Queued
  <2>4. A' = A /\ D' = D
    BY <2>1 DEF TypeOK
  <2>5. Service!Accept(t)
    BY <2>1, <2>3, <2>4 DEF Service!Accept
  <2> QED BY <2>1, <2>5 DEF Service!Next
<1>4. ASSUME NEW w \in Workers, WorkerTake(w) PROVE Service!Next
  <2> DEFINE t == Head(iPendingTaskList)
  <2>1. /\ ~iTerminated /\ iTerminated' = iTerminated
        /\ iPendingTaskList /= << >>
        /\ iPendingTaskList' = Tail(iPendingTaskList)
        /\ fate' = [fate EXCEPT ![t] = "running"]
    BY <1>4 DEF WorkerTake, ownerVars
  <2>2. t \in Tasks /\ fate[t] = "pending"
    BY <2>1 DEF TypeOK, TaskInOnePlace
  <2>3. A' = A \cup {t} /\ D' = D
    BY <2>1, <2>2 DEF TypeOK
  <2>4. Cardinality(A) < MaxWorkers
    BY <1>4, RoomForOneMore
  <2>5. Service!Cardinality(A) = Cardinality(A)
    BY DEF Cardinality, Service!Cardinality
  <2>6. Service!Start
    BY <2>1, <2>3, <2>4, <2>5 DEF Service!Start
  <2> QED BY <2>6 DEF Service!Next
<1>5. ASSUME NEW w \in Workers, TaskReturn(w) PROVE Service!Next
  <2>1. PICK t \in Tasks : t = held[w]
    BY <1>5 DEF TaskReturn, HeldInv
  <2>2. /\ fate[t] = "running"
        /\ fate' = [fate EXCEPT ![t] = "done"]
        /\ UNCHANGED <<iPendingTaskList, iTerminated>>
    BY <1>5, <2>1 DEF TaskReturn, TaskInOnePlace, ownerVars
  <2>3. A' = A \ {t} /\ D' = D \cup {t}
    BY <2>2 DEF TypeOK
  <2>4. Service!Finish(t)
    BY <2>2, <2>3 DEF Service!Finish
  <2> QED BY <2>4 DEF Service!Next
<1>6. ASSUME DtorTerminate PROVE Service!Next
  <2>1. ~iTerminated
    BY <1>6 DEF DtorTerminate, OwnerInv
  <2>2. A' = A /\ D' = D
    BY <1>6 DEF DtorTerminate
  <2>3. Service!Close
    BY <1>6, <2>1, <2>2 DEF DtorTerminate, Service!Close
  <2> QED BY <2>3 DEF Service!Next
<1>7. ASSUME NEW th \in Threads, PostNotify(th) PROVE UNCHANGED Service!vars
  BY <1>1, <1>7 DEF PostNotify, ownerVars
<1>8. ASSUME NEW w \in Workers,
             WorkerExit(w) \/ WorkerIdle(w) \/ WorkerDone(w) \/ SpuriousWakeup(w)
      PROVE  UNCHANGED Service!vars
  BY <1>1, <1>8
  DEF WorkerExit, WorkerIdle, WorkerDone, SpuriousWakeup, ownerVars
<1>9. ASSUME DtorNotify \/ JoinAll \/ JoinNext \/ JoinReturn
      PROVE  UNCHANGED Service!vars
  BY <1>1, <1>9 DEF DtorNotify, JoinAll, JoinNext, JoinReturn
<1>10. ASSUME UNCHANGED poolVars PROVE UNCHANGED Service!vars
  BY <1>1, <1>10 DEF poolVars
<1> HIDE DEF A, D
<1> QED
  BY <1>2, <1>3, <1>4, <1>5, <1>6, <1>7, <1>8, <1>9, <1>10
  DEF Next, PostStep, WorkerStep, DtorStep

\* The pool implements the task queue its users are promised: FIFO start, each
\* accepted task started at most once, never more in progress than threads,
\* nothing started after termination.
THEOREM PoolImplementsTaskQueue == Spec => ImplementsTaskQueue
<1>1. Init => Service!Init
  BY DEF Init, Service!Init
<1>2. CoreInv /\ [Next]_poolVars => [Service!Next]_Service!vars
  BY StepRefines
<1> QED
  BY <1>1, <1>2, CoreInvariant, PTL
  DEF Spec, ImplementsTaskQueue, Service!Safety

=============================================================================
