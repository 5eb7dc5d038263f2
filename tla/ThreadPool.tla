------------------------------ MODULE ThreadPool ------------------------------
(***************************************************************************)
(* The worker pool of src/sys/ThreadPool.{h,cpp}.                          *)
(*                                                                         *)
(* A pool starts with InitialSize workers and grows on demand up to        *)
(* Capacity.  Threads post tasks; workers take them from one FIFO under    *)
(* iMutex and run them outside it.  The destructor raises iTerminated,     *)
(* wakes everybody and joins the workers one by one.                       *)
(*                                                                         *)
(* A section of the code that holds iMutex is one step here.  What the     *)
(* code does without the mutex is a step of its own: the look at           *)
(* iTerminated at the top of postTask, both notify_all calls, a task's     *)
(* body, and each turn of the loop of joinAll.                             *)
(***************************************************************************)
EXTENDS Integers, Sequences, FiniteSets

CONSTANTS Tasks,         \* the tasks that are ever posted, each posted once
          Clients,       \* the threads outside the pool that call postTask
          InitialSize,   \* aInitialSize of the constructor
          Capacity,      \* aCapacity of the constructor
          NoTask         \* what a thread holds when it handles no task

ASSUME SizesAssumption == InitialSize \in Nat /\ Capacity \in Nat
ASSUME NoTaskAssumption == NoTask \notin Tasks
ASSUME ClientsAssumption == Clients \cap Int = {}

\* The vector of workers can never be longer than this.
MaxWorkers == IF InitialSize > Capacity THEN InitialSize ELSE Capacity

\* A worker is named by its index in iWorkerList; one index is to spare, for a
\* pool that spawned too many.
Workers == 1 .. MaxWorkers + 1

Threads == Clients \cup Workers

VARIABLES
    iWorkerCount,      \* iWorkerList.size()
    iTerminated,
    iPendingTaskList,
    iWorkingCount,
    worker,            \* where doWork stands in each worker
    held,              \* the task a worker took from the queue
    call,              \* where postTask stands in each thread
    callTask,          \* the argument of that call
    owner,             \* where the owner of the pool stands: joinAll, destructor
    joinIdx,           \* the loop variable of joinAll
    fate               \* history: what became of each task

poolVars == <<iWorkerCount, iTerminated, iPendingTaskList, iWorkingCount,
              worker, held, call, callTask, owner, joinIdx, fate>>

workerVars == <<iWorkerCount, iWorkingCount, worker, held>>
callVars   == <<call, callTask>>
ownerVars  == <<iTerminated, owner, joinIdx>>

-----------------------------------------------------------------------------
(* "loop"      about to lock iMutex at the top of the loop                  *)
(* "waiting"   inside iWaitForTaskCondition.wait                            *)
(* "woken"     notified (or woken for no reason), about to re-lock iMutex   *)
(* "running"   inside the task, outside iMutex                              *)
(* "finishing" the task is over, iWorkingCount not yet decremented          *)
WorkerState == {"unborn", "loop", "waiting", "woken", "running", "finishing",
                "exited"}

\* "checked": iTerminated was seen false; "queued": the mutex is released
\* again and notify_all is still to come.
CallState == {"none", "checked", "queued"}

\* "alive": no call of the owner; "notify": the destructor has set iTerminated
\* and not notified yet; "joining": in joinAll; "destroyed": destructor over.
OwnerState == {"alive", "notify", "joining", "destroyed"}

Fate == {"new", "posting", "refused", "pending", "running", "done"}

Born == 1 .. iWorkerCount

Working == {w \in Workers : worker[w] \in {"running", "finishing"}}

Init ==
    /\ iWorkerCount = InitialSize
    /\ iTerminated = FALSE
    /\ iPendingTaskList = << >>
    /\ iWorkingCount = 0
    /\ worker = [w \in Workers |-> IF w <= InitialSize THEN "loop" ELSE "unborn"]
    /\ held = [w \in Workers |-> NoTask]
    /\ call = [th \in Threads |-> "none"]
    /\ callTask = [th \in Threads |-> NoTask]
    /\ owner = "alive"
    /\ joinIdx = 0
    /\ fate = [t \in Tasks |-> "new"]

-----------------------------------------------------------------------------
(* postTask                                                                *)

\* A client may use the pool until its owner starts to destroy it; a task may
\* post further tasks for as long as it runs.
MayPost(th) ==
    /\ call[th] = "none"
    /\ \/ th \in Clients /\ ~iTerminated
       \/ th \in Workers /\ worker[th] = "running"

\* The test of iTerminated is made without the mutex.
PostCheck(th, t) ==
    /\ MayPost(th)
    /\ fate[t] = "new"
    /\ IF iTerminated
         THEN /\ fate' = [fate EXCEPT ![t] = "refused"]
              /\ UNCHANGED callVars
         ELSE /\ fate' = [fate EXCEPT ![t] = "posting"]
              /\ call' = [call EXCEPT ![th] = "checked"]
              /\ callTask' = [callTask EXCEPT ![th] = t]
    /\ UNCHANGED <<workerVars, ownerVars, iPendingTaskList>>

\* Mutant of MustSpawn: the limit is tested for the old size of the list.
MustSpawnTooMany == iWorkingCount = iWorkerCount /\ iWorkingCount <= Capacity

\* A worker is spawned only when every existing one is counted as working.
MustSpawn == iWorkingCount = iWorkerCount /\ iWorkingCount < Capacity

PostEnqueue(th) ==
    /\ call[th] = "checked"
    /\ IF MustSpawn
         THEN /\ iWorkerCount' = iWorkerCount + 1
              /\ worker' = [worker EXCEPT ![iWorkerCount + 1] = "loop"]
         ELSE UNCHANGED <<iWorkerCount, worker>>
    /\ iPendingTaskList' = Append(iPendingTaskList, callTask[th])
    /\ fate' = [fate EXCEPT ![callTask[th]] = "pending"]
    /\ call' = [call EXCEPT ![th] = "queued"]
    /\ UNCHANGED <<iWorkingCount, held, callTask, ownerVars>>

\* Mutant of WakeAll: notify_one.
WakeOne ==
    IF \E w \in Workers : worker[w] = "waiting"
      THEN [worker EXCEPT ![CHOOSE w \in Workers : worker[w] = "waiting"] = "woken"]
      ELSE worker

\* Mutant of WakeAll: the notification is forgotten.
WakeNobody == worker

\* notify_all: nobody is left in the wait set.
WakeAll == [w \in Workers |-> IF worker[w] = "waiting" THEN "woken" ELSE worker[w]]

PostNotify(th) ==
    /\ call[th] = "queued"
    /\ worker' = WakeAll
    /\ call' = [call EXCEPT ![th] = "none"]
    /\ callTask' = [callTask EXCEPT ![th] = NoTask]
    /\ UNCHANGED <<iWorkerCount, iWorkingCount, held, ownerVars,
                   iPendingTaskList, fate>>

-----------------------------------------------------------------------------
(* doWork                                                                  *)

\* The locked sections after the top of the loop and after the wait treat a
\* raised iTerminated and a non-empty list alike.
AtQueue(w) == worker[w] \in {"loop", "woken"}

WorkerExit(w) ==
    /\ AtQueue(w)
    /\ iTerminated
    /\ worker' = [worker EXCEPT ![w] = "exited"]
    /\ UNCHANGED <<iWorkerCount, iWorkingCount, held, callVars, ownerVars,
                   iPendingTaskList, fate>>

\* Mutant of WorkerTake: a copy of the front is taken, the front stays.
WorkerTakeNoPop(w) ==
    /\ AtQueue(w)
    /\ ~iTerminated
    /\ iPendingTaskList /= << >>
    /\ held' = [held EXCEPT ![w] = Head(iPendingTaskList)]
    /\ iWorkingCount' = iWorkingCount + 1
    /\ worker' = [worker EXCEPT ![w] = "running"]
    /\ UNCHANGED <<iWorkerCount, callVars, ownerVars, iPendingTaskList, fate>>

\* Mutant of WorkerTake: iTerminated is not looked at again after the wait.
WorkerTakeNoRecheck(w) ==
    /\ AtQueue(w)
    /\ worker[w] = "woken" \/ ~iTerminated
    /\ iPendingTaskList /= << >>
    /\ held' = [held EXCEPT ![w] = Head(iPendingTaskList)]
    /\ fate' = [fate EXCEPT ![Head(iPendingTaskList)] = "running"]
    /\ iPendingTaskList' = Tail(iPendingTaskList)
    /\ iWorkingCount' = iWorkingCount + 1
    /\ worker' = [worker EXCEPT ![w] = "running"]
    /\ UNCHANGED <<iWorkerCount, callVars, ownerVars>>

WorkerTake(w) ==
    /\ AtQueue(w)
    /\ ~iTerminated
    /\ iPendingTaskList /= << >>
    /\ held' = [held EXCEPT ![w] = Head(iPendingTaskList)]
    /\ fate' = [fate EXCEPT ![Head(iPendingTaskList)] = "running"]
    /\ iPendingTaskList' = Tail(iPendingTaskList)
    /\ iWorkingCount' = iWorkingCount + 1
    /\ worker' = [worker EXCEPT ![w] = "running"]
    /\ UNCHANGED <<iWorkerCount, callVars, ownerVars>>

\* With nothing to do the top of the loop waits and the return from the wait
\* goes back to the top of the loop.
WorkerIdle(w) ==
    /\ AtQueue(w)
    /\ ~iTerminated
    /\ iPendingTaskList = << >>
    /\ worker' = [worker EXCEPT ![w] = IF worker[w] = "loop" THEN "waiting"
                                                            ELSE "loop"]
    /\ UNCHANGED <<iWorkerCount, iWorkingCount, held, callVars, ownerVars,
                   iPendingTaskList, fate>>

\* boost's condition variables may wake a thread that nobody notified.
SpuriousWakeup(w) ==
    /\ worker[w] = "waiting"
    /\ worker' = [worker EXCEPT ![w] = "woken"]
    /\ UNCHANGED <<iWorkerCount, iWorkingCount, held, callVars, ownerVars,
                   iPendingTaskList, fate>>

\* The task returns; it has returned from every postTask it made.
TaskReturn(w) ==
    /\ worker[w] = "running"
    /\ call[w] = "none"
    /\ worker' = [worker EXCEPT ![w] = "finishing"]
    /\ fate' = [fate EXCEPT ![held[w]] = "done"]
    /\ UNCHANGED <<iWorkerCount, iWorkingCount, held, callVars, ownerVars,
                   iPendingTaskList>>

\* Mutant of WorkerDone: the count is not given back.
WorkerDoneNoCount(w) ==
    /\ worker[w] = "finishing"
    /\ held' = [held EXCEPT ![w] = NoTask]
    /\ worker' = [worker EXCEPT ![w] = "loop"]
    /\ UNCHANGED <<iWorkerCount, iWorkingCount, callVars, ownerVars,
                   iPendingTaskList, fate>>

WorkerDone(w) ==
    /\ worker[w] = "finishing"
    /\ iWorkingCount' = iWorkingCount - 1
    /\ held' = [held EXCEPT ![w] = NoTask]
    /\ worker' = [worker EXCEPT ![w] = "loop"]
    /\ UNCHANGED <<iWorkerCount, callVars, ownerVars, iPendingTaskList, fate>>

-----------------------------------------------------------------------------
(* The owner: ~ThreadPool and joinAll                                      *)

\* Mutant of DtorNotify: the destructor joins without waking anybody.
DtorNoNotify ==
    /\ owner = "notify"
    /\ owner' = "joining"
    /\ joinIdx' = 0
    /\ UNCHANGED <<iTerminated, workerVars, callVars, iPendingTaskList, fate>>

\* The owner destroys the pool once its clients are out of postTask.
DtorTerminate ==
    /\ owner = "alive"
    /\ \A c \in Clients : call[c] = "none"
    /\ iTerminated' = TRUE
    /\ owner' = "notify"
    /\ UNCHANGED <<joinIdx, workerVars, callVars, iPendingTaskList, fate>>

DtorNotify ==
    /\ owner = "notify"
    /\ worker' = WakeAll
    /\ owner' = "joining"
    /\ joinIdx' = 0
    /\ UNCHANGED <<iTerminated, iWorkerCount, iWorkingCount, held, callVars,
                   iPendingTaskList, fate>>

\* joinAll is public: an owner may also call it on a pool that is not
\* terminated.
JoinAll ==
    /\ owner = "alive"
    /\ owner' = "joining"
    /\ joinIdx' = 0
    /\ UNCHANGED <<iTerminated, workerVars, callVars, iPendingTaskList, fate>>

\* One turn of the loop; the size of the list is read anew on each turn.
JoinNext ==
    /\ owner = "joining"
    /\ joinIdx < iWorkerCount
    /\ worker[joinIdx + 1] = "exited"
    /\ joinIdx' = joinIdx + 1
    /\ UNCHANGED <<iTerminated, owner, workerVars, callVars, iPendingTaskList,
                   fate>>

\* Mutant of JoinReturn: only the workers of the constructor are joined.
JoinReturnEarly ==
    /\ owner = "joining"
    /\ joinIdx >= InitialSize
    /\ owner' = IF iTerminated THEN "destroyed" ELSE "alive"
    /\ UNCHANGED <<iTerminated, joinIdx, workerVars, callVars,
                   iPendingTaskList, fate>>

JoinReturn ==
    /\ owner = "joining"
    /\ joinIdx >= iWorkerCount
    /\ owner' = IF iTerminated THEN "destroyed" ELSE "alive"
    /\ UNCHANGED <<iTerminated, joinIdx, workerVars, callVars,
                   iPendingTaskList, fate>>

-----------------------------------------------------------------------------
PostStep(th) == PostEnqueue(th) \/ PostNotify(th)

WorkerStep(w) ==
    \/ WorkerExit(w)
    \/ WorkerTake(w)
    \/ WorkerIdle(w)
    \/ WorkerDone(w)

DtorStep == DtorNotify \/ JoinNext \/ JoinReturn

Next ==
    \/ \E th \in Threads, t \in Tasks : PostCheck(th, t)
    \/ \E th \in Threads : PostStep(th)
    \/ \E w \in Workers : WorkerStep(w) \/ TaskReturn(w) \/ SpuriousWakeup(w)
    \/ DtorTerminate
    \/ JoinAll
    \/ DtorStep

\* Every thread that can run does: locked sections are short and the mutex is
\* granted to every waiter.  Nobody is obliged to post or to destroy.
ThreadFairness ==
    /\ \A th \in Threads : WF_poolVars(PostStep(th))
    /\ \A w \in Workers : WF_poolVars(WorkerStep(w))
    /\ WF_poolVars(DtorStep)

\* Tasks come back to the pool: an assumption on what is posted.
TaskFairness == \A w \in Workers : WF_poolVars(TaskReturn(w))

Spec == Init /\ [][Next]_poolVars

FairSpec == Spec /\ ThreadFairness /\ TaskFairness

-----------------------------------------------------------------------------
\* Every variable keeps its type.
TypeOK ==
    /\ iWorkerCount \in 0 .. MaxWorkers
    /\ iTerminated \in BOOLEAN
    /\ iPendingTaskList \in Seq(Tasks)
    /\ iWorkingCount \in Int
    /\ worker \in [Workers -> WorkerState]
    /\ held \in [Workers -> Tasks \cup {NoTask}]
    /\ call \in [Threads -> CallState]
    /\ callTask \in [Threads -> Tasks \cup {NoTask}]
    /\ owner \in OwnerState
    /\ joinIdx \in 0 .. MaxWorkers
    /\ fate \in [Tasks -> Fate]

\* iWorkingCount, which decides about spawning, counts exactly the workers
\* between taking a task and handing it back.
WorkingCountExact == iWorkingCount = Cardinality(Working)

\* No lost wakeup: a worker sleeps beside a pending task, or beside a raised
\* iTerminated, only while the notify_all of a postTask, or of the destructor,
\* is still to come.
NoLostWakeup ==
    (\E w \in Workers : worker[w] = "waiting") =>
        /\ iPendingTaskList /= << >> => \E th \in Threads : call[th] = "queued"
        /\ iTerminated => owner = "notify"

\* Each accepted task is in one place: once in the list while pending, in the
\* hands of exactly one worker while running.
TaskInOnePlace ==
    /\ \A i, j \in 1 .. Len(iPendingTaskList) :
          iPendingTaskList[i] = iPendingTaskList[j] => i = j
    /\ \A i \in 1 .. Len(iPendingTaskList) : fate[iPendingTaskList[i]] = "pending"
    /\ \A w \in Workers : worker[w] = "running" => fate[held[w]] = "running"
    /\ \A v, w \in Working : held[v] = held[w] => v = w

\* When the destructor returns, every worker ever spawned has left doWork, also
\* one that a task spawned while joinAll was under way; so no thread touches
\* the dead pool.
DestroyedIsQuiet ==
    owner = "destroyed" =>
        /\ \A w \in Born : worker[w] = "exited"
        /\ \A th \in Threads : call[th] = "none"

\* What the pool promises to its users; a task is active until its entry point
\* has returned.
Service == INSTANCE TaskQueue WITH
    Width    <- MaxWorkers,
    queue    <- iPendingTaskList,
    active   <- {t \in Tasks : fate[t] = "running"},
    finished <- {t \in Tasks : fate[t] = "done"},
    closed   <- iTerminated

\* The pool implements that promise: accepted tasks are started in the order
\* they were accepted, each once, never more of them together than the pool may
\* have threads, and none once the destructor has raised iTerminated, also by a
\* worker that the destructor wakes with tasks pending.
ImplementsTaskQueue == Service!Safety

\* While tasks return, every accepted task is run unless the pool is destroyed.
AcceptedTaskRuns ==
    \A t \in Tasks : (fate[t] = "pending") ~> (fate[t] = "done" \/ iTerminated)

\* While tasks return, the destructor returns.
DtorReturns == iTerminated ~> (owner = "destroyed")

=============================================================================
