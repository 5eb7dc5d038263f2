--------------------------------- MODULE Shell ---------------------------------
(***************************************************************************)
(* src/sys/Shell.{h,cpp}: child processes, and the SIGCHLD handler that    *)
(* reaps them.                                                             *)
(*                                                                         *)
(* gRunningList holds the callbacks of the children believed to run.  The  *)
(* handler must not change it; it leaves the pids it has reaped in         *)
(* gZombieList, and every call of the shell first erases those from        *)
(* gRunningList (cleanZombie).  The handler runs on any thread, between    *)
(* any two steps of it, also when that thread holds gMutex; then the       *)
(* handler waits for its own thread for ever.                              *)
(*                                                                         *)
(* cleanZombie runs with gMutex held, but for the first of the two calls   *)
(* that launch makes.  gZombieCount is not protected at all, so that what  *)
(* ++ and -- store may come from a value read earlier.  A pid stands for   *)
(* one process: the kernel counts pids upwards, and they do not come round *)
(* again.                                                                  *)
(***************************************************************************)
EXTENDS Integers, FiniteSets

CONSTANTS Threads,     \* threads that call the shell; the handler runs on them
          Pids,        \* bound: the processes that are ever launched
          NoPid,       \* 0
          MaxZombies   \* the size of gZombieList, 4096 in the code

ASSUME ShellAssumption ==
    /\ Pids \subseteq Nat \ {NoPid}
    /\ NoPid \notin Threads
    /\ MaxZombies \in Nat \ {0}

NoThread == NoPid

VARIABLES
    gRunningList,   \* the keys of the map
    gZombieList,
    gZombieCount,
    gMutex,         \* the thread that holds it
    pc, op, arg,    \* where each thread stands, in which function, for which pid
    seen,           \* the gZombieCount it has read
    ret,            \* what its last launch returned
    handler,        \* where the handler that interrupted it stands
    deadChildPid,
    read,           \* the gZombieCount that handler has read
    callback,       \* whether that handler found a callback
    sigchld,        \* a SIGCHLD is pending for the process
    child,          \* what the kernel knows of each process
    inherited,      \* the gRunningList that its copy of the program can terminate
    called,         \* history: the processes whose callback was called
    crashed         \* undefined behaviour has brought the process down

listVars    == <<gRunningList, gZombieList, gZombieCount>>
threadVars  == <<pc, op, arg, seen, ret>>
handlerVars == <<handler, deadChildPid, read, callback>>
kernelVars  == <<sigchld, child, inherited>>

shellVars == <<listVars, gMutex, threadVars, handlerVars, kernelVars, called,
               crashed>>

Pc == {"idle", "clean", "erase", "decrement", "fork", "lock", "locked"}

Op == {"none", "launch", "terminate", "terminateAll", "isRunning"}

\* "top": at the loop condition; "lock", "append", "call" what comes next.
HandlerState == {"off", "top", "lock", "append", "count", "call"}

\* "killed": SIGKILL is sent; "dead": not yet reaped.
ChildState == {"new", "alive", "killed", "dead", "reaped"}

ShellInit ==
    /\ gRunningList = {}
    /\ gZombieList = [i \in 1 .. MaxZombies |-> NoPid]
    /\ gZombieCount = 0
    /\ gMutex = NoThread
    /\ pc = [t \in Threads |-> "idle"]
    /\ op = [t \in Threads |-> "none"]
    /\ arg = [t \in Threads |-> NoPid]
    /\ seen = [t \in Threads |-> 0]
    /\ ret = [t \in Threads |-> NoPid]
    /\ handler = [t \in Threads |-> "off"]
    /\ deadChildPid = [t \in Threads |-> NoPid]
    /\ read = [t \in Threads |-> 0]
    /\ callback = [t \in Threads |-> FALSE]
    /\ sigchld = FALSE
    /\ child = [p \in Pids |-> "new"]
    /\ inherited = [p \in Pids |-> {}]
    /\ called = {}
    /\ crashed = FALSE

\* A thread's own code stands still while the handler runs on it.
At(t, where) == ~crashed /\ handler[t] = "off" /\ pc[t] = where

Goto(t, where) == pc' = [pc EXCEPT ![t] = where]

-----------------------------------------------------------------------------
(* The functions of the shell                                              *)

\* launch cleans before it forks and locks, the others lock first.
Enter(t, function, pid) ==
    /\ At(t, "idle")
    /\ op' = [op EXCEPT ![t] = function]
    /\ arg' = [arg EXCEPT ![t] = pid]
    /\ Goto(t, IF function = "launch" THEN "clean" ELSE "lock")
    /\ UNCHANGED <<seen, ret>>
    /\ UNCHANGED <<listVars, gMutex, handlerVars, kernelVars, called, crashed>>

\* strToArgv has rejected the command.
LaunchRefused(t) ==
    /\ At(t, "idle")
    /\ ret' = [ret EXCEPT ![t] = NoPid]
    /\ UNCHANGED <<listVars, gMutex, pc, op, arg, seen, handlerVars, kernelVars,
                   called, crashed>>

Lock(t) ==
    /\ At(t, "lock")
    /\ gMutex = NoThread
    /\ gMutex' = t
    /\ Goto(t, "clean")
    /\ UNCHANGED <<listVars, op, arg, seen, ret, handlerVars, kernelVars, called,
                   crashed>>

\* cleanZombie: the loop condition.
CleanTest(t) ==
    /\ At(t, "clean")
    /\ Goto(t, IF gZombieCount > 0 THEN "erase"
               ELSE IF gMutex = t THEN "locked" ELSE "fork")
    /\ UNCHANGED <<listVars, gMutex, op, arg, seen, ret, handlerVars, kernelVars,
                   called, crashed>>

\* Two threads inside erase, of which at most one holds gMutex: the tree may
\* come apart.
MapRace(t) == \E u \in Threads \ {t} : pc[u] = "erase"

\* cleanZombie: the body.  Another clean may have emptied the list since, or two
\* handlers may have counted beyond its end.
CleanErase(t) ==
    /\ At(t, "erase")
    /\ \/ /\ gZombieCount \in 1 .. MaxZombies
          /\ gRunningList' = gRunningList \ {gZombieList[gZombieCount]}
          /\ seen' = [seen EXCEPT ![t] = gZombieCount]
          /\ Goto(t, "decrement")
          /\ UNCHANGED crashed
       \/ /\ gZombieCount \notin 1 .. MaxZombies \/ MapRace(t)
          /\ crashed' = TRUE
          /\ UNCHANGED <<gRunningList, seen, pc>>
    /\ UNCHANGED <<gZombieList, gZombieCount, gMutex, op, arg, ret, handlerVars,
                   kernelVars, called>>

\* gZombieCount--; below zero it wraps round and the next turn of the loop reads
\* far outside gZombieList.
CleanDecrement(t) ==
    /\ At(t, "decrement")
    /\ \E n \in {gZombieCount, seen[t]} :
          /\ gZombieCount' = IF n = 0 THEN 0 ELSE n - 1
          /\ crashed' = (n = 0)
    /\ seen' = [seen EXCEPT ![t] = 0]
    /\ Goto(t, "clean")
    /\ UNCHANGED <<gRunningList, gZombieList, gMutex, op, arg, ret,
                   handlerVars, kernelVars, called>>

\* The kernel hands out pids in increasing order.  The child is a copy of the
\* program, in which gMutex stays locked for ever if it is locked now.
Fork(t, p) ==
    /\ At(t, "fork")
    /\ child[p] = "new"
    /\ \A q \in Pids : q < p => child[q] /= "new"
    /\ child' = [child EXCEPT ![p] = "alive"]
    /\ inherited' = [inherited EXCEPT ![p] =
                        IF gMutex = NoThread THEN gRunningList ELSE {}]
    /\ arg' = [arg EXCEPT ![t] = p]
    /\ Goto(t, "lock")
    /\ UNCHANGED <<listVars, gMutex, op, seen, ret, handlerVars, sigchld, called,
                   crashed>>

\* Mutant of ForkFails: what fork returned is passed on.
ForkFailsMinusOne(t) ==
    /\ At(t, "fork")
    /\ ret' = [ret EXCEPT ![t] = -1]
    /\ op' = [op EXCEPT ![t] = "none"]
    /\ Goto(t, "idle")
    /\ UNCHANGED <<listVars, gMutex, arg, seen, handlerVars, kernelVars, called,
                   crashed>>

ForkFails(t) ==
    /\ At(t, "fork")
    /\ ret' = [ret EXCEPT ![t] = NoPid]
    /\ op' = [op EXCEPT ![t] = "none"]
    /\ Goto(t, "idle")
    /\ UNCHANGED <<listVars, gMutex, arg, seen, handlerVars, kernelVars, called,
                   crashed>>

\* The end of every locked section.
Return(t) ==
    /\ At(t, "locked")
    /\ gMutex' = NoThread
    /\ op' = [op EXCEPT ![t] = "none"]
    /\ arg' = [arg EXCEPT ![t] = NoPid]
    /\ Goto(t, "idle")
    /\ UNCHANGED <<gZombieList, gZombieCount, seen, handlerVars, sigchld, inherited,
                   called, crashed>>

Kill(pids) ==
    child' = [p \in Pids |-> IF p \in pids /\ child[p] = "alive" THEN "killed"
                                                                ELSE child[p]]

\* Mutant of LaunchInsert: a process without a callback is not entered.
LaunchForget(t) ==
    /\ op[t] = "launch"
    /\ Return(t)
    /\ gRunningList' \in {gRunningList, gRunningList \cup {arg[t]}}
    /\ ret' = [ret EXCEPT ![t] = arg[t]]
    /\ UNCHANGED child

LaunchInsert(t) ==
    /\ op[t] = "launch"
    /\ Return(t)
    /\ gRunningList' = gRunningList \cup {arg[t]}
    /\ ret' = [ret EXCEPT ![t] = arg[t]]
    /\ UNCHANGED child

Terminate(t) ==
    /\ op[t] = "terminate"
    /\ Return(t)
    /\ Kill(gRunningList \cap {arg[t]})
    /\ gRunningList' = gRunningList \ {arg[t]}
    /\ UNCHANGED ret

TerminateAll(t) ==
    /\ op[t] = "terminateAll"
    /\ Return(t)
    /\ Kill(gRunningList)
    /\ UNCHANGED <<gRunningList, ret>>

\* isRunning and getProcessList answer from gRunningList, and change nothing else.
IsRunning(t) ==
    /\ op[t] = "isRunning"
    /\ Return(t)
    /\ UNCHANGED <<gRunningList, child, ret>>

-----------------------------------------------------------------------------
(* Children, signals and sigchldHandler                                    *)

\* A child ends by itself or because it was killed.  SIGCHLD does not count.
Die(p) ==
    /\ ~crashed
    /\ child[p] \in {"alive", "killed"}
    /\ child' = [child EXCEPT ![p] = "dead"]
    /\ inherited' = [inherited EXCEPT ![p] = {}]
    /\ sigchld' = TRUE
    /\ UNCHANGED <<listVars, gMutex, threadVars, handlerVars, called, crashed>>

\* A command that cannot be executed: the child calls exit, where the destructor
\* of its own StaticInitializer calls terminateAll; so it kills the processes that
\* were running when it was forked.
ExecFails(p) ==
    /\ ~crashed
    /\ child[p] = "alive"
    /\ child' = [q \in Pids |->
                    IF q = p THEN "dead"
                    ELSE IF q \in inherited[p] /\ child[q] = "alive" THEN "killed"
                    ELSE child[q]]
    /\ inherited' = [inherited EXCEPT ![p] = {}]
    /\ sigchld' = TRUE
    /\ UNCHANGED <<listVars, gMutex, threadVars, handlerVars, called, crashed>>

\* SIGCHLD is blocked on a thread while the handler runs on it.
Deliver(t) ==
    /\ ~crashed
    /\ sigchld
    /\ handler[t] = "off"
    /\ sigchld' = FALSE
    /\ handler' = [handler EXCEPT ![t] = "top"]
    /\ UNCHANGED <<listVars, gMutex, threadVars, deadChildPid, read, callback,
                   child, inherited, called, crashed>>

Dead == {p \in Pids : child[p] = "dead"}

HandlerAt(t, where) == ~crashed /\ handler[t] = where

Reap(t) ==
    /\ HandlerAt(t, "top")
    /\ gZombieCount < MaxZombies
    /\ \E p \in Dead :
          /\ child' = [child EXCEPT ![p] = "reaped"]
          /\ deadChildPid' = [deadChildPid EXCEPT ![t] = p]
    /\ handler' = [handler EXCEPT ![t] = "lock"]
    /\ UNCHANGED <<listVars, gMutex, threadVars, read, callback, sigchld, inherited,
                   called, crashed>>

\* No child to reap, or no room for it.
HandlerReturn(t) ==
    /\ HandlerAt(t, "top")
    /\ Dead = {} \/ gZombieCount >= MaxZombies
    /\ handler' = [handler EXCEPT ![t] = "off"]
    /\ UNCHANGED <<listVars, gMutex, threadVars, deadChildPid, read, callback,
                   kernelVars, called, crashed>>

\* Mutant of HandlerFind: the callback is not looked up.
HandlerFindAny(t) ==
    /\ HandlerAt(t, "lock")
    /\ gMutex = NoThread
    /\ callback' = [callback EXCEPT ![t] = TRUE]
    /\ handler' = [handler EXCEPT ![t] = "append"]
    /\ UNCHANGED <<listVars, gMutex, threadVars, deadChildPid, read, kernelVars,
                   called, crashed>>

\* The lookup under gMutex, which the interrupted thread must not hold.
HandlerFind(t) ==
    /\ HandlerAt(t, "lock")
    /\ gMutex = NoThread
    /\ \/ /\ callback' = [callback EXCEPT ![t] = deadChildPid[t] \in gRunningList]
          /\ handler' = [handler EXCEPT ![t] = "append"]
          /\ UNCHANGED crashed
       \/ /\ \E u \in Threads : pc[u] = "erase"
          /\ crashed' = TRUE
          /\ UNCHANGED <<callback, handler>>
    /\ UNCHANGED <<listVars, gMutex, threadVars, deadChildPid, read, kernelVars,
                   called>>

\* gZombieList[gZombieCount] = deadChildPid; two handlers may have passed the
\* loop condition when there was room for one.
HandlerAppend(t) ==
    /\ HandlerAt(t, "append")
    /\ IF gZombieCount < MaxZombies
         THEN /\ gZombieList' = [gZombieList EXCEPT
                                    ![gZombieCount + 1] = deadChildPid[t]]
              /\ read' = [read EXCEPT ![t] = gZombieCount]
              /\ handler' = [handler EXCEPT ![t] = "count"]
              /\ UNCHANGED crashed
         ELSE /\ crashed' = TRUE
              /\ UNCHANGED <<gZombieList, read, handler>>
    /\ UNCHANGED <<gRunningList, gZombieCount, gMutex, threadVars, deadChildPid,
                   callback, kernelVars, called>>

\* gZombieCount++
HandlerCount(t) ==
    /\ HandlerAt(t, "count")
    /\ \E n \in {gZombieCount, read[t]} : gZombieCount' = n + 1
    /\ read' = [read EXCEPT ![t] = 0]
    /\ handler' = [handler EXCEPT ![t] = "call"]
    /\ UNCHANGED <<gRunningList, gZombieList, gMutex, threadVars, deadChildPid,
                   callback, kernelVars, called, crashed>>

\* Mutant of HandlerCall: one child is reaped for each signal.
HandlerCallOnce(t) ==
    /\ HandlerAt(t, "call")
    /\ called' = IF callback[t] THEN called \cup {deadChildPid[t]} ELSE called
    /\ callback' = [callback EXCEPT ![t] = FALSE]
    /\ deadChildPid' = [deadChildPid EXCEPT ![t] = NoPid]
    /\ handler' = [handler EXCEPT ![t] = "off"]
    /\ UNCHANGED <<listVars, gMutex, threadVars, read, kernelVars, crashed>>

\* The callback is called; it does not use the shell.
HandlerCall(t) ==
    /\ HandlerAt(t, "call")
    /\ called' = IF callback[t] THEN called \cup {deadChildPid[t]} ELSE called
    /\ callback' = [callback EXCEPT ![t] = FALSE]
    /\ deadChildPid' = [deadChildPid EXCEPT ![t] = NoPid]
    /\ handler' = [handler EXCEPT ![t] = "top"]
    /\ UNCHANGED <<listVars, gMutex, threadVars, read, kernelVars, crashed>>

-----------------------------------------------------------------------------
\* What a thread does inside a function once it is called.
FunctionStep(t) ==
    \/ Lock(t)
    \/ CleanTest(t)
    \/ CleanErase(t)
    \/ CleanDecrement(t)
    \/ \E p \in Pids : Fork(t, p)
    \/ ForkFails(t)
    \/ LaunchInsert(t)
    \/ Terminate(t)
    \/ TerminateAll(t)
    \/ IsRunning(t)

HandlerStep(t) ==
    \/ Reap(t)
    \/ HandlerReturn(t)
    \/ HandlerFind(t)
    \/ HandlerAppend(t)
    \/ HandlerCount(t)
    \/ HandlerCall(t)

-----------------------------------------------------------------------------
\* The shell's state is well-formed: launch returns a pid or NoPid, never -1, and
\* each handler and each thread works on a count that is within the list, though
\* the count that two handlers leave may be beyond it.
ShellTypeOK ==
    /\ gRunningList \subseteq Pids
    /\ gZombieList \in [1 .. MaxZombies -> Pids \cup {NoPid}]
    /\ gZombieCount \in Nat
    /\ gMutex \in Threads \cup {NoThread}
    /\ pc \in [Threads -> Pc]
    /\ op \in [Threads -> Op]
    /\ arg \in [Threads -> Pids \cup {NoPid}]
    /\ seen \in [Threads -> 0 .. MaxZombies]
    /\ ret \in [Threads -> Pids \cup {NoPid}]
    /\ handler \in [Threads -> HandlerState]
    /\ deadChildPid \in [Threads -> Pids \cup {NoPid}]
    /\ read \in [Threads -> 0 .. MaxZombies]
    /\ callback \in [Threads -> BOOLEAN]
    /\ sigchld \in BOOLEAN
    /\ child \in [Pids -> ChildState]
    /\ inherited \in [Pids -> SUBSET Pids]
    /\ called \subseteq Pids
    /\ crashed \in BOOLEAN

\* The process table that the shell is: a process is in it while it is in
\* gRunningList, and its death is to be reported while a handler that has found its
\* callback has not yet called it.
Starting(p) == \E t \in Threads : op[t] = "launch" /\ arg[t] = p

Entry ==
    [p \in Pids |-> IF p \in gRunningList THEN "listed"
                    ELSE IF child[p] = "new" THEN "none"
                    ELSE IF Starting(p) THEN "starting"
                    ELSE "gone"]

Due == {p \in Pids : \E t \in Threads : callback[t] /\ deadChildPid[t] = p}

Table == INSTANCE ProcessTable WITH
    Processes <- Pids,
    life      <- child,
    entry     <- Entry,
    due       <- Due,
    reported  <- called

\* The shell implements that promise, though calls of cleanZombie, and the handler on
\* several threads, overlap and spoil gZombieCount: no process leaves gRunningList
\* before it is terminated or reaped, or comes back to it; a process is killed only
\* after it was entered; a callback is called once, for a process that has been reaped
\* and was still entered when the handler looked.
ImplementsProcessTable == Table!Safety

\* Nothing is lost while it lives: a process whose launch has returned is in
\* gRunningList, so that terminate and terminateAll can reach it, until it is
\* killed or dies; whatever handlers and calls of cleanZombie do to each other.
LiveIsListed ==
    \A p \in Pids :
        child[p] = "alive" =>
            \/ p \in gRunningList
            \/ \E t \in Threads : op[t] = "launch" /\ arg[t] = p

\* A thread waits in the handler for the gMutex it holds itself.
SelfLocked == \E t \in Threads : handler[t] = "lock" /\ gMutex = t

\* Signals do not count, but the handler loops: when a listed process has died
\* its callback is called, unless the process was terminated first, or undefined
\* behaviour or the handler's lock intervenes; as long as the list of zombies has
\* always had room, for a handler that finds it full leaves and none comes back.
DeathReported ==
    [](gZombieCount < MaxZombies) =>
        \A p \in Pids :
            (child[p] = "dead" /\ p \in gRunningList) ~>
                (p \in called \/ p \notin gRunningList \/ SelfLocked \/ crashed)

\* "Is process running" (Shell.cpp:186): a process that has been reaped leaves
\* gRunningList, so it is in gZombieList or in the hands of a handler that will
\* put it there.
ReapedIsForgotten ==
    \A p \in gRunningList :
        child[p] = "reaped" =>
            \/ \E i \in 1 .. gZombieCount : gZombieList[i] = p
            \/ \E t \in Threads : deadChildPid[t] = p
            \/ \E t \in Threads : op[t] = "terminate" /\ arg[t] = p
=============================================================================
