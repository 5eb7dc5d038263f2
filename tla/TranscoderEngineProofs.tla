------------------------- MODULE TranscoderEngineProofs -------------------------
(***************************************************************************)
(* Live processes stay reachable, an engine has one transcoder, and the    *)
(* shell is a process table, for any number of threads, engines and        *)
(* processes and any size of gZombieList, whatever the SIGCHLD handler     *)
(* does between any two steps.                                             *)
(***************************************************************************)
EXTENDS TranscoderEngine, TLAPS

-----------------------------------------------------------------------------
(* The invariant                                                           *)

\* Where a thread may stand in which function: it cleans with gMutex held, but for
\* the first time in launch; launch has a pid from fork on.
CallInv ==
    \A t \in Threads :
        /\ op[t] = "none" <=> pc[t] = "idle"
        /\ gMutex = t => pc[t] \in {"clean", "erase", "decrement", "locked"}
        /\ pc[t] = "locked" => gMutex = t
        /\ pc[t] \in {"idle", "fork"} => arg[t] = NoPid
        /\ pc[t] \in {"clean", "erase", "decrement"} /\ gMutex /= t =>
              op[t] = "launch" /\ arg[t] = NoPid
        /\ pc[t] = "fork" => op[t] = "launch"
        /\ op[t] = "launch" /\ (gMutex = t \/ pc[t] = "lock") => arg[t] /= NoPid

\* What the handler hands on, and what gRunningList loses for it, has been reaped.
ZombieInv ==
    /\ \A i \in 1 .. MaxZombies : gZombieList[i] \in Pids => child[gZombieList[i]] = "reaped"
    /\ \A t \in Threads : deadChildPid[t] \in Pids => child[deadChildPid[t]] = "reaped"
    /\ \A t \in Threads : callback[t] => deadChildPid[t] \in Pids

\* The process that a thread has forked, until the engine knows of it.
Holds(t, p) ==
    \/ op[t] = "launch" /\ arg[t] = p
    \/ pc[t] = "idle" /\ ret[t] = p /\ \E e \in Engines : UserOf[e] = t /\ engine[e] = "launching"

HeldInv ==
    /\ \A t \in Threads, p \in Pids : Holds(t, p) =>
          /\ child[p] /= "new"
          /\ \A e \in Engines : p \notin owned[e]
          /\ \A u \in Threads : Holds(u, p) => u = t
    /\ \A e \in Engines : \A p \in owned[e] : child[p] /= "new"

\* An engine that kills its process has asked for it, or is done with it.
EngineInv ==
    /\ \A e \in Engines :
          /\ iRunningPid[e] \in owned[e] \cup {NoPid}
          /\ engine[e] = "launching" => iRunningPid[e] = NoPid
          /\ engine[e] = "launching" /\ pc[UserOf[e]] /= "idle" => op[UserOf[e]] = "launch"
          /\ engine[e] \in {"killing", "restarting"} =>
                /\ iRunningPid[e] /= NoPid
                /\ IF pc[UserOf[e]] = "idle"
                     THEN child[iRunningPid[e]] /= "alive"
                     ELSE op[UserOf[e]] = "terminate" /\ arg[UserOf[e]] = iRunningPid[e]
    /\ \A e, f \in Engines :
          UserOf[e] = UserOf[f] /\ engine[e] /= "idle" /\ engine[f] /= "idle" => e = f
    /\ \A t \in Threads : op[t] = "launch" =>
          \E e \in Engines : UserOf[e] = t /\ engine[e] = "launching"

ShellInv == TypeOK /\ CallInv /\ ZombieInv /\ LiveIsListed

Inv == ShellInv /\ HeldInv /\ EngineInv /\ OneTranscoder

LEMMA InvInit == Init => Inv
<1> SUFFICES ASSUME Init PROVE Inv
  OBVIOUS
<1> USE ShellAssumption, EnginesAssumption DEF Init, ShellInit
<1>1. TypeOK
  <2>1. 0 \in 0 .. MaxZombies
    OBVIOUS
  <2>2. /\ pc \in [Threads -> Pc] /\ op \in [Threads -> Op]
        /\ handler \in [Threads -> HandlerState] /\ child \in [Pids -> ChildState]
        /\ engine \in [Engines -> EngineState]
    BY DEF Pc, Op, HandlerState, ChildState, EngineState
  <2>3. /\ seen \in [Threads -> 0 .. MaxZombies] /\ read \in [Threads -> 0 .. MaxZombies]
        /\ inherited \in [Pids -> SUBSET Pids] /\ owned \in [Engines -> SUBSET Pids]
    BY <2>1
  <2> QED BY <2>2, <2>3 DEF TypeOK, ShellTypeOK, NoThread
<1>2. CallInv
  BY DEF CallInv, NoThread
<1>3. ZombieInv
  BY DEF ZombieInv
<1>4. LiveIsListed
  BY DEF LiveIsListed
<1>5. HeldInv
  BY DEF HeldInv, Holds
<1>6. EngineInv /\ OneTranscoder
  BY DEF EngineInv, OneTranscoder
<1> QED BY <1>1, <1>2, <1>3, <1>4, <1>5, <1>6 DEF Inv, ShellInv

-----------------------------------------------------------------------------
(* The shell's steps.  Each keeps ShellInv by itself; that an engine's     *)
(* invariants are kept is another matter, for its thread alone.            *)

LEMMA TypeStep ==
    ASSUME ShellInv, UNCHANGED engineVars, NEW t \in Threads,
           FunctionStep(t) \/ HandlerStep(t) \/ Deliver(t)
    PROVE  TypeOK'
<1> USE ShellAssumption
    DEF ShellInv, TypeOK, ShellTypeOK, engineVars, listVars, threadVars, handlerVars, kernelVars,
        Goto, NoThread, Pc, Op, HandlerState, ChildState, At, HandlerAt
<1>1. CASE Lock(t)
  BY <1>1 DEF Lock
<1>2. CASE CleanTest(t)
  BY <1>2 DEF CleanTest
<1>3. CASE CleanErase(t)
  <2>1. /\ gRunningList' \subseteq Pids /\ seen' \in [Threads -> 0 .. MaxZombies]
        /\ pc' \in [Threads -> Pc] /\ crashed' \in BOOLEAN
    <3>1. CASE crashed' = TRUE /\ UNCHANGED <<gRunningList, seen, pc>>
      BY <3>1
    <3>2. CASE /\ gZombieCount \in 1 .. MaxZombies
               /\ gRunningList' = gRunningList \ {gZombieList[gZombieCount]}
               /\ seen' = [seen EXCEPT ![t] = gZombieCount]
               /\ Goto(t, "decrement")
               /\ UNCHANGED crashed
      <4>1. gRunningList' \subseteq Pids
        BY <3>2
      <4>2. gZombieCount \in 0 .. MaxZombies
        BY <3>2
      <4>3. seen' \in [Threads -> 0 .. MaxZombies]
        BY <3>2, <4>2
      <4>4. pc' \in [Threads -> Pc]
        BY <3>2
      <4>5. crashed' \in BOOLEAN
        BY <3>2
      <4> QED BY <4>1, <4>3, <4>4, <4>5
    <3> QED BY <1>3, <3>1, <3>2 DEF CleanErase
  <2>2. UNCHANGED <<gZombieList, gZombieCount, gMutex, op, arg, ret, handlerVars, kernelVars, called>>
    BY <1>3 DEF CleanErase
  <2> QED BY <2>1, <2>2
<1>4. CASE CleanDecrement(t)
  BY <1>4 DEF CleanDecrement
<1>5. ASSUME NEW p \in Pids, Fork(t, p) PROVE TypeOK'
  BY <1>5 DEF Fork
<1>6. CASE ForkFails(t)
  BY <1>6 DEF ForkFails
<1>7. CASE LaunchInsert(t)
  <2>1. arg[t] \in Pids \cup {NoPid}
    OBVIOUS
  <2>2. arg[t] \in Pids
    BY <1>7, <2>1 DEF LaunchInsert, Return, CallInv
  <2> QED BY <1>7, <2>2 DEF LaunchInsert, Return
<1>8. CASE Terminate(t)
  BY <1>8 DEF Terminate, Return, Kill
<1>9. CASE TerminateAll(t)
  BY <1>9 DEF TerminateAll, Return, Kill
<1>10. CASE IsRunning(t)
  BY <1>10 DEF IsRunning, Return
<1>11. CASE Reap(t)
  <2>1. PICK p \in Dead : /\ child' = [child EXCEPT ![p] = "reaped"]
                          /\ deadChildPid' = [deadChildPid EXCEPT ![t] = p]
    BY <1>11 DEF Reap
  <2>2. child' \in [Pids -> ChildState] /\ deadChildPid' \in [Threads -> Pids \cup {NoPid}]
    BY <2>1 DEF Dead
  <2>3. handler' \in [Threads -> HandlerState]
    BY <1>11 DEF Reap
  <2> QED BY <1>11, <2>2, <2>3 DEF Reap
<1>12. CASE HandlerReturn(t)
  BY <1>12 DEF HandlerReturn
<1>13. CASE HandlerFind(t)
  <2>1. callback' \in [Threads -> BOOLEAN] /\ crashed' \in BOOLEAN
    <3>1. CASE crashed' = TRUE /\ UNCHANGED callback
      BY <3>1
    <3>2. CASE /\ callback' = [callback EXCEPT ![t] = deadChildPid[t] \in gRunningList]
               /\ UNCHANGED crashed
      BY <3>2
    <3> QED BY <1>13, <3>1, <3>2 DEF HandlerFind
  <2>2. handler' \in [Threads -> HandlerState]
    <3>1. UNCHANGED handler \/ handler' = [handler EXCEPT ![t] = "append"]
      BY <1>13 DEF HandlerFind
    <3> QED BY <3>1
  <2> QED BY <1>13, <2>1, <2>2 DEF HandlerFind
<1>14. CASE HandlerAppend(t)
  <2>1. CASE gZombieCount < MaxZombies
    <3>1. gZombieList' \in [1 .. MaxZombies -> Pids \cup {NoPid}]
      <4>1. gZombieList' = [gZombieList EXCEPT ![gZombieCount + 1] = deadChildPid[t]]
        BY <1>14, <2>1 DEF HandlerAppend
      <4>2. deadChildPid[t] \in Pids \cup {NoPid}
        OBVIOUS
      <4> QED BY <4>1, <4>2
    <3>2. read' \in [Threads -> 0 .. MaxZombies]
      <4>1. read' = [read EXCEPT ![t] = gZombieCount]
        BY <1>14, <2>1 DEF HandlerAppend
      <4>2. gZombieCount \in 0 .. MaxZombies
        BY <2>1
      <4> QED BY <4>1, <4>2
    <3>3. handler' \in [Threads -> HandlerState]
      <4>1. handler' = [handler EXCEPT ![t] = "count"]
        BY <1>14, <2>1 DEF HandlerAppend
      <4> QED BY <4>1
    <3> QED BY <1>14, <2>1, <3>1, <3>2, <3>3 DEF HandlerAppend
  <2>2. CASE ~(gZombieCount < MaxZombies)
    BY <1>14, <2>2 DEF HandlerAppend
  <2> QED BY <2>1, <2>2
<1>15. CASE HandlerCount(t)
  BY <1>15 DEF HandlerCount
<1>16. CASE HandlerCall(t)
  <2>1. callback' \in [Threads -> BOOLEAN]
    BY <1>16 DEF HandlerCall
  <2>2. deadChildPid' \in [Threads -> Pids \cup {NoPid}] /\ handler' \in [Threads -> HandlerState]
    BY <1>16 DEF HandlerCall
  <2>3. called' \subseteq Pids
    <3>1. callback[t] => deadChildPid[t] \in Pids
      BY DEF ZombieInv
    <3>2. called' = IF callback[t] THEN called \cup {deadChildPid[t]} ELSE called
      BY <1>16 DEF HandlerCall
    <3>3. called \subseteq Pids
      OBVIOUS
    <3> HIDE DEF ShellInv, TypeOK, ShellTypeOK
    <3> QED BY <3>1, <3>2, <3>3
  <2> QED BY <1>16, <2>1, <2>2, <2>3 DEF HandlerCall
<1>17. CASE Deliver(t)
  BY <1>17 DEF Deliver
<1> QED
  BY <1>1, <1>2, <1>3, <1>4, <1>5, <1>6, <1>7, <1>8, <1>9, <1>10, <1>11, <1>12, <1>13, <1>14,
     <1>15, <1>16, <1>17 DEF FunctionStep, HandlerStep

\* Only the thread itself moves in its function and takes or gives up gMutex.
LEMMA CallStep ==
    ASSUME ShellInv, NEW t \in Threads, FunctionStep(t) \/ HandlerStep(t) \/ Deliver(t)
    PROVE  CallInv'
<1> USE ShellAssumption
    DEF ShellInv, CallInv, TypeOK, ShellTypeOK, listVars, threadVars, handlerVars, kernelVars, Goto,
        NoThread, Pc, Op, At
<1>1. CASE Lock(t)
  BY <1>1 DEF Lock
<1>2. CASE CleanTest(t)
  BY <1>2 DEF CleanTest
<1>3. CASE CleanErase(t)
  BY <1>3 DEF CleanErase
<1>4. CASE CleanDecrement(t)
  BY <1>4 DEF CleanDecrement
<1>5. ASSUME NEW p \in Pids, Fork(t, p) PROVE CallInv'
  BY <1>5 DEF Fork
<1>6. CASE ForkFails(t)
  BY <1>6 DEF ForkFails
<1>7. CASE LaunchInsert(t) \/ Terminate(t) \/ TerminateAll(t) \/ IsRunning(t)
  <2>1. Return(t)
    BY <1>7 DEF LaunchInsert, Terminate, TerminateAll, IsRunning
  <2>2. gMutex = t /\ gMutex' = NoThread
    BY <2>1 DEF Return
  <2>3. /\ op' = [op EXCEPT ![t] = "none"] /\ arg' = [arg EXCEPT ![t] = NoPid]
        /\ pc' = [pc EXCEPT ![t] = "idle"]
    BY <2>1 DEF Return
  <2>4. /\ op'[t] = "none" /\ arg'[t] = NoPid /\ pc'[t] = "idle"
        /\ \A u \in Threads \ {t} : op'[u] = op[u] /\ arg'[u] = arg[u] /\ pc'[u] = pc[u]
    BY <2>3
  <2>5. NoThread \notin Threads /\ CallInv
    OBVIOUS
  <2> HIDE DEF ShellInv, TypeOK, ShellTypeOK, NoThread
  <2> QED BY <2>2, <2>4, <2>5
<1>8. CASE HandlerStep(t) \/ Deliver(t)
  BY <1>8 DEF HandlerStep, Reap, HandlerReturn, HandlerFind, HandlerAppend, HandlerCount,
              HandlerCall, Deliver
<1> QED BY <1>1, <1>2, <1>3, <1>4, <1>5, <1>6, <1>7, <1>8 DEF FunctionStep

\* A process that has been reaped stays so.
LEMMA ReapedStays ==
    ASSUME ShellInv, NEW t \in Threads, FunctionStep(t) \/ HandlerStep(t) \/ Deliver(t)
    PROVE  \A p \in Pids :
              /\ child[p] = "reaped" => child'[p] = "reaped"
              /\ child'[p] = "alive" /\ child[p] /= "alive" =>
                    child[p] = "new" /\ op'[t] = "launch" /\ arg'[t] = p
              /\ child[p] /= "new" => child'[p] /= "new"
<1> USE DEF ShellInv, TypeOK, ShellTypeOK, ChildState
<1>1. ASSUME NEW p \in Pids, Fork(t, p) 
      PROVE  /\ child' = [child EXCEPT ![p] = "alive"] /\ child[p] = "new"
             /\ op'[t] = "launch" /\ arg'[t] = p
  BY <1>1 DEF Fork, CallInv, At
<1>2. CASE Terminate(t) \/ TerminateAll(t)
  BY <1>2 DEF Terminate, TerminateAll, Kill
<1>3. CASE Reap(t)
  BY <1>3 DEF Reap, Dead
<1>4. ASSUME ~(\E p \in Pids : Fork(t, p)), ~Terminate(t), ~TerminateAll(t), ~Reap(t)
      PROVE  UNCHANGED child
  BY <1>4 DEF FunctionStep, HandlerStep, Lock, CleanTest, CleanErase, CleanDecrement, ForkFails,
              LaunchInsert, IsRunning, HandlerReturn, HandlerFind, HandlerAppend,
              HandlerCount, HandlerCall, Deliver, kernelVars
<1> QED BY <1>1, <1>2, <1>3, <1>4

LEMMA ZombieStep ==
    ASSUME ShellInv, NEW t \in Threads, FunctionStep(t) \/ HandlerStep(t) \/ Deliver(t)
    PROVE  ZombieInv'
<1> USE ShellAssumption DEF ShellInv, ZombieInv, TypeOK, ShellTypeOK
<1>1. \A p \in Pids : child[p] = "reaped" => child'[p] = "reaped"
  BY ReapedStays
<1>2. CASE UNCHANGED <<gZombieList, deadChildPid, callback>>
  BY <1>1, <1>2
<1>3. CASE Reap(t)
  BY <1>1, <1>3 DEF Reap, Dead, listVars
<1>4. CASE HandlerFind(t)
  <2>1. \/ UNCHANGED callback
        \/ callback' = [callback EXCEPT ![t] = deadChildPid[t] \in gRunningList]
    BY <1>4 DEF HandlerFind
  <2>2. UNCHANGED <<gZombieList, gRunningList, deadChildPid, child>>
    BY <1>4 DEF HandlerFind, listVars, kernelVars
  <2>3. gRunningList \subseteq Pids /\ callback \in [Threads -> BOOLEAN]
    OBVIOUS
  <2>4. ASSUME NEW u \in Threads, callback'[u] PROVE deadChildPid[u] \in Pids
    <3>1. callback[u] => deadChildPid[u] \in Pids
      OBVIOUS
    <3> HIDE DEF ShellInv, ZombieInv, TypeOK, ShellTypeOK
    <3>2. CASE UNCHANGED callback BY <2>4, <3>1, <3>2
    <3>3. CASE callback' = [callback EXCEPT ![t] = deadChildPid[t] \in gRunningList]
      BY <2>3, <2>4, <3>1, <3>3
    <3> QED BY <2>1, <3>2, <3>3
  <2>5. /\ \A i \in 1 .. MaxZombies : gZombieList'[i] \in Pids => child'[gZombieList'[i]] = "reaped"
        /\ \A u \in Threads : deadChildPid'[u] \in Pids => child'[deadChildPid'[u]] = "reaped"
    BY <1>1, <2>2
  <2>6. \A u \in Threads : callback'[u] => deadChildPid'[u] \in Pids
    BY <2>2, <2>4
  <2> HIDE DEF ShellInv, TypeOK, ShellTypeOK
  <2> QED BY <2>5, <2>6
<1>5. CASE HandlerAppend(t)
  <2>1. \A i \in 1 .. MaxZombies : gZombieList'[i] \in {gZombieList[i], deadChildPid[t]}
    BY <1>5 DEF HandlerAppend
  <2> QED BY <1>1, <1>5, <2>1 DEF HandlerAppend
<1>6. CASE HandlerCall(t)
  <2>1. /\ callback' = [callback EXCEPT ![t] = FALSE]
        /\ deadChildPid' = [deadChildPid EXCEPT ![t] = NoPid]
        /\ UNCHANGED gZombieList
    BY <1>6 DEF HandlerCall, listVars
  <2>2. \A i \in 1 .. MaxZombies : gZombieList'[i] \in Pids => child'[gZombieList'[i]] = "reaped"
    BY <1>1, <2>1
  <2>3. \A u \in Threads : deadChildPid'[u] \in Pids => child'[deadChildPid'[u]] = "reaped"
    BY <1>1, <2>1
  <2>4. ASSUME NEW u \in Threads, callback'[u] PROVE deadChildPid'[u] \in Pids
    <3>1. callback \in [Threads -> BOOLEAN] /\ deadChildPid \in [Threads -> Pids \cup {NoPid}]
      OBVIOUS
    <3>2. callback[u] => deadChildPid[u] \in Pids
      OBVIOUS
    <3> HIDE DEF ShellInv, ZombieInv, TypeOK, ShellTypeOK
    <3> QED BY <2>1, <2>4, <3>1, <3>2
  <2> QED BY <2>2, <2>3, <2>4
<1> QED
  BY <1>2, <1>3, <1>4, <1>5, <1>6
  DEF FunctionStep, HandlerStep, Lock, CleanTest, CleanErase, CleanDecrement, Fork, ForkFails,
      LaunchInsert, Terminate, TerminateAll, IsRunning, Return, HandlerReturn, HandlerCount,
      Deliver, listVars, handlerVars

\* Only erase, launch and terminate change gRunningList: the first drops what has been
\* reaped, the last what it kills.
LEMMA ListedStep ==
    ASSUME ShellInv, NEW t \in Threads, FunctionStep(t) \/ HandlerStep(t) \/ Deliver(t)
    PROVE  LiveIsListed'
<1> SUFFICES ASSUME NEW p \in Pids, child'[p] = "alive"
             PROVE  p \in gRunningList' \/ \E u \in Threads : op'[u] = "launch" /\ arg'[u] = p
  BY DEF LiveIsListed
<1> USE ShellAssumption DEF ShellInv, TypeOK, ShellTypeOK
<1>1. CASE child[p] /= "alive"
  BY <1>1, ReapedStays
<1>2. ASSUME child[p] = "alive", NEW u \in Threads, op[u] = "launch", arg[u] = p
      PROVE  p \in gRunningList' \/ (op'[u] = "launch" /\ arg'[u] = p)
  <2>1. CASE UNCHANGED <<op, arg>>
    BY <1>2, <2>1
  <2>2. CASE LaunchInsert(t)
    <3>1. u = t => p \in gRunningList'
      BY <1>2, <2>2 DEF LaunchInsert
    <3>2. u /= t => op'[u] = op[u] /\ arg'[u] = arg[u]
      BY <2>2 DEF LaunchInsert, Return
    <3>3. CASE u = t BY <3>1, <3>3
    <3>4. CASE u /= t BY <1>2, <3>2, <3>4
    <3> QED BY <3>3, <3>4
  <2>3. CASE Terminate(t) \/ TerminateAll(t) \/ IsRunning(t)
    BY <1>2, <2>3 DEF Terminate, TerminateAll, IsRunning, Return
  <2>4. ASSUME NEW q \in Pids, Fork(t, q) PROVE op'[u] = "launch" /\ arg'[u] = p
    BY <1>2, <2>4 DEF Fork, CallInv, At
  <2>5. CASE ForkFails(t)
    BY <1>2, <2>5 DEF ForkFails, CallInv, At
  <2> QED
    BY <2>1, <2>2, <2>3, <2>4, <2>5
    DEF FunctionStep, HandlerStep, Lock, CleanTest, CleanErase, CleanDecrement, Reap,
        HandlerReturn, HandlerFind, HandlerAppend, HandlerCount, HandlerCall, Deliver, threadVars
<1>3. ASSUME child[p] = "alive", p \in gRunningList
      PROVE  p \in gRunningList'
  <2>1. CASE CleanErase(t)
    <3>1. ASSUME gZombieCount \in 1 .. MaxZombies PROVE gZombieList[gZombieCount] /= p
      BY <1>3, <3>1 DEF ZombieInv
    <3> QED BY <1>3, <2>1, <3>1 DEF CleanErase
  <2>2. CASE Terminate(t)
    BY <1>3, <2>2 DEF Terminate, Kill
  <2>3. CASE LaunchInsert(t)
    BY <1>3, <2>3 DEF LaunchInsert
  <2>4. CASE UNCHANGED gRunningList
    BY <1>3, <2>4
  <2> QED
    BY <2>1, <2>2, <2>3, <2>4
    DEF FunctionStep, HandlerStep, Lock, CleanTest, CleanDecrement, Fork, ForkFails,
        TerminateAll, IsRunning, Reap, HandlerReturn, HandlerFind,
        HandlerAppend, HandlerCount, HandlerCall, Deliver, listVars
<1> QED BY <1>1, <1>2, <1>3 DEF LiveIsListed

\* What a thread's step in the shell does to its own variables.
LEMMA ThreadStep ==
    ASSUME ShellInv, NEW t \in Threads, FunctionStep(t) \/ HandlerStep(t) \/ Deliver(t)
    PROVE  /\ \A u \in Threads \ {t} : /\ pc'[u] = pc[u] /\ op'[u] = op[u]
                                       /\ arg'[u] = arg[u] /\ ret'[u] = ret[u]
           /\ pc[t] = "idle" => /\ pc'[t] = "idle" /\ op'[t] = op[t]
                                /\ arg'[t] = arg[t] /\ ret'[t] = ret[t]
           /\ pc'[t] /= "idle" =>
                 /\ op'[t] = op[t]
                 /\ \/ arg'[t] = arg[t]
                    \/ op[t] = "launch" /\ arg'[t] \in Pids /\ child[arg'[t]] = "new"
                                        /\ child'[arg'[t]] = "alive"
           /\ pc[t] /= "idle" /\ pc'[t] = "idle" =>
                 /\ op'[t] = "none"
                 /\ op[t] = "launch" => ret'[t] \in {NoPid, arg[t]}
                 /\ op[t] = "terminate" => Terminate(t)
<1> USE DEF ShellInv, TypeOK, ShellTypeOK, Pc, At, Goto
<1>1. CASE UNCHANGED threadVars
  BY <1>1 DEF threadVars
<1>2. CASE Lock(t)
  BY <1>2 DEF Lock
<1>3. CASE CleanTest(t)
  BY <1>3 DEF CleanTest
<1>4. CASE CleanErase(t)
  BY <1>4 DEF CleanErase
<1>5. CASE CleanDecrement(t)
  BY <1>5 DEF CleanDecrement
<1>6. ASSUME NEW p \in Pids, Fork(t, p)
      PROVE  /\ pc' = [pc EXCEPT ![t] = "lock"] /\ UNCHANGED <<op, ret>> /\ arg' = [arg EXCEPT ![t] = p]
             /\ pc[t] = "fork" /\ op[t] = "launch" /\ child[p] = "new" /\ child'[p] = "alive"
  BY <1>6 DEF Fork, CallInv
<1>7. CASE ForkFails(t)
  BY <1>7 DEF ForkFails, CallInv
<1>8. CASE LaunchInsert(t)
  BY <1>8 DEF LaunchInsert, Return
<1>9. CASE Terminate(t) \/ TerminateAll(t) \/ IsRunning(t)
  BY <1>9 DEF Terminate, TerminateAll, IsRunning, Return
<1>10. CASE \E p \in Pids : Fork(t, p)
  BY <1>6, <1>10
<1> QED
  BY <1>1, <1>2, <1>3, <1>4, <1>5, <1>7, <1>8, <1>9, <1>10
  DEF FunctionStep, HandlerStep, Reap, HandlerReturn, HandlerFind, HandlerAppend, HandlerCount,
      HandlerCall, Deliver

-----------------------------------------------------------------------------
(* The engines                                                             *)

\* Terminated means killed, or dead already: nobody else holds an engine's process.
LEMMA TerminateKills ==
    ASSUME Inv, NEW t \in Threads, Terminate(t), NEW e \in Engines, UserOf[e] = t,
           engine[e] \in {"killing", "restarting"}
    PROVE  child'[iRunningPid[e]] /= "alive"
<1> USE DEF Inv, ShellInv, TypeOK, ShellTypeOK
<1>1. pc[t] = "locked" /\ op[t] = "terminate" /\ Kill(gRunningList \cap {arg[t]})
  BY DEF Terminate, Return, At
<1>2. arg[t] = iRunningPid[e] /\ iRunningPid[e] \in owned[e] /\ iRunningPid[e] \in Pids
  BY <1>1, EnginesAssumption DEF EngineInv
<1>3. ASSUME child[arg[t]] = "alive" PROVE arg[t] \in gRunningList
  <2>1. \A u \in Threads : ~(op[u] = "launch" /\ arg[u] = arg[t])
    BY <1>2 DEF HeldInv, Holds
  <2> QED BY <1>2, <1>3, <2>1 DEF LiveIsListed
<1> QED BY <1>1, <1>2, <1>3 DEF Kill, ChildState

LEMMA ShellStepKeeps ==
    ASSUME Inv, NEW t \in Threads, FunctionStep(t) \/ HandlerStep(t) \/ Deliver(t),
           UNCHANGED engineVars
    PROVE  Inv'
<1> USE EnginesAssumption, ShellAssumption DEF engineVars
<1>1. ShellInv'
  BY TypeStep, CallStep, ZombieStep, ListedStep DEF Inv, ShellInv
<1>2. \A p \in Pids : /\ child'[p] = "alive" /\ child[p] /= "alive" => child[p] = "new"
                      /\ child[p] /= "new" => child'[p] /= "new"
  BY ReapedStays DEF Inv
<1>3. OneTranscoder'
  BY <1>2 DEF Inv, OneTranscoder, HeldInv, ShellInv, TypeOK
<1>4. \A u \in Threads \ {t}, p \in Pids : Holds(u, p)' <=> Holds(u, p)
  BY ThreadStep DEF Inv, Holds
<1>5. ASSUME NEW p \in Pids, Holds(t, p)'
      PROVE  Holds(t, p) \/ (child[p] = "new" /\ child'[p] = "alive")
  <2>1. CASE op'[t] = "launch" /\ arg'[t] = p
    <3>1. pc'[t] /= "idle"
      BY <1>1, <2>1 DEF ShellInv, CallInv
    <3>2. op[t] = "launch" /\ (arg[t] = p \/ (child[p] = "new" /\ child'[p] = "alive"))
      BY <2>1, <3>1, ThreadStep DEF Inv
    <3> QED BY <3>2 DEF Holds
  <2>2. CASE pc'[t] = "idle" /\ ret'[t] = p /\ \E e \in Engines : UserOf[e] = t /\ engine[e] = "launching"
    <3>1. CASE pc[t] = "idle"
      <4>1. ret'[t] = ret[t]
        BY <3>1, ThreadStep DEF Inv
      <4> QED BY <2>2, <3>1, <4>1 DEF Holds
    <3>2. CASE pc[t] /= "idle"
      <4>1. op[t] = "launch"
        BY <2>2, <3>2 DEF Inv, EngineInv
      <4>2. arg[t] = p
        BY <2>2, <3>2, <4>1, ThreadStep DEF Inv
      <4> QED BY <4>1, <4>2 DEF Holds
    <3> QED BY <3>1, <3>2
  <2> QED BY <1>5, <2>1, <2>2 DEF Holds
<1>6. HeldInv'
  <2>1. ASSUME NEW u \in Threads, NEW p \in Pids, Holds(u, p)'
        PROVE  \/ Holds(u, p)
               \/ u = t /\ child[p] = "new" /\ child'[p] = "alive"
    BY <1>4, <1>5, <2>1
  <2>2. \A u \in Threads, p \in Pids : Holds(u, p)' => child'[p] /= "new" /\ \A e \in Engines : p \notin owned[e]
    BY <1>2, <2>1 DEF Inv, HeldInv
  <2>3. \A u, v \in Threads, p \in Pids : Holds(u, p)' /\ Holds(v, p)' => u = v
    BY <2>1 DEF Inv, HeldInv
  <2>4. \A e \in Engines : \A p \in owned[e] : child'[p] /= "new"
    BY <1>2 DEF Inv, HeldInv, ShellInv, TypeOK
  <2> QED BY <2>2, <2>3, <2>4 DEF HeldInv
<1>7. ASSUME NEW e \in Engines, engine[e] \in {"killing", "restarting"}
      PROVE  /\ iRunningPid[e] /= NoPid
             /\ IF pc'[UserOf[e]] = "idle"
                  THEN child'[iRunningPid[e]] /= "alive"
                  ELSE op'[UserOf[e]] = "terminate" /\ arg'[UserOf[e]] = iRunningPid[e]
  <2>1. iRunningPid[e] \in Pids /\ child[iRunningPid[e]] /= "new"
    <3>1. iRunningPid[e] \in owned[e]
      BY <1>7 DEF Inv, EngineInv
    <3>2. owned[e] \subseteq Pids
      BY DEF Inv, ShellInv, TypeOK
    <3> QED BY <3>1, <3>2 DEF Inv, HeldInv
  <2>2. CASE pc[UserOf[e]] = "idle"
    <3>1. pc'[UserOf[e]] = "idle"
      <4>1. CASE UserOf[e] = t BY <2>2, <4>1, ThreadStep DEF Inv
      <4>2. CASE UserOf[e] /= t BY <2>2, <4>2, ThreadStep DEF Inv
      <4> QED BY <4>1, <4>2
    <3>2. child[iRunningPid[e]] /= "alive"
      BY <1>7, <2>2 DEF Inv, EngineInv
    <3> QED BY <1>2, <2>1, <3>1, <3>2
  <2>3. CASE pc[UserOf[e]] /= "idle"
    <3>1. op[UserOf[e]] = "terminate" /\ arg[UserOf[e]] = iRunningPid[e]
      BY <1>7, <2>3 DEF Inv, EngineInv
    <3>2. CASE pc'[UserOf[e]] /= "idle"
      <4>1. CASE UserOf[e] = t
        <5>1. op'[t] = op[t] /\ (arg'[t] = arg[t] \/ op[t] = "launch")
          BY <3>2, <4>1, ThreadStep DEF Inv
        <5> QED BY <2>1, <3>1, <3>2, <4>1, <5>1
      <4>2. CASE UserOf[e] /= t
        <5>1. op'[UserOf[e]] = op[UserOf[e]] /\ arg'[UserOf[e]] = arg[UserOf[e]]
          BY <4>2, ThreadStep DEF Inv
        <5> QED BY <2>1, <3>1, <3>2, <5>1
      <4> QED BY <4>1, <4>2
    <3>3. CASE pc'[UserOf[e]] = "idle"
      <4>1. UserOf[e] = t /\ Terminate(t)
        BY <2>3, <3>1, <3>3, ThreadStep DEF Inv
      <4> QED BY <1>7, <2>1, <3>3, <4>1, TerminateKills
    <3> QED BY <3>2, <3>3
  <2> QED BY <2>2, <2>3
<1>8. ASSUME NEW e \in Engines, engine[e] = "launching", pc'[UserOf[e]] /= "idle"
      PROVE  op'[UserOf[e]] = "launch"
  BY <1>8, ThreadStep DEF Inv, EngineInv
<1>9. ASSUME NEW u \in Threads, op'[u] = "launch" PROVE op[u] = "launch"
  <2>1. pc'[u] /= "idle"
    BY <1>1, <1>9 DEF ShellInv, CallInv
  <2> QED BY <1>9, <2>1, ThreadStep DEF Inv
<1>10. EngineInv'
  BY <1>7, <1>8, <1>9 DEF Inv, EngineInv
<1> QED BY <1>1, <1>3, <1>6, <1>10 DEF Inv

\* A call of the shell begins: gRunningList and the processes are as they were.
LEMMA EnterKeeps ==
    ASSUME ShellInv, NEW t \in Threads, NEW f \in Op \ {"none"}, NEW p \in Pids \cup {NoPid},
           f = "launch" => p = NoPid, Enter(t, f, p), TypeOK'
    PROVE  /\ ShellInv'
           /\ pc[t] = "idle" /\ op[t] = "none"
           /\ pc'[t] /= "idle" /\ op'[t] = f /\ arg'[t] = p
           /\ \A u \in Threads \ {t} : pc'[u] = pc[u] /\ op'[u] = op[u] /\ arg'[u] = arg[u]
           /\ UNCHANGED <<ret, child>>
<1> USE ShellAssumption DEF ShellInv, TypeOK, ShellTypeOK
<1>1. /\ pc' = [pc EXCEPT ![t] = IF f = "launch" THEN "clean" ELSE "lock"]
      /\ op' = [op EXCEPT ![t] = f] /\ arg' = [arg EXCEPT ![t] = p] /\ pc[t] = "idle"
      /\ UNCHANGED <<ret, listVars, gMutex, handlerVars, kernelVars, called, crashed>>
  BY DEF Enter, At, Goto
<1>2. op[t] = "none"
  BY <1>1 DEF CallInv
<1>3. /\ op'[t] = f /\ arg'[t] = p /\ pc'[t] = (IF f = "launch" THEN "clean" ELSE "lock")
      /\ \A u \in Threads \ {t} : pc'[u] = pc[u] /\ op'[u] = op[u] /\ arg'[u] = arg[u]
  BY <1>1
<1>4. CallInv'
  BY <1>1, <1>2, <1>3 DEF CallInv, NoThread
<1>5. ZombieInv'
  BY <1>1 DEF ZombieInv, listVars, handlerVars, kernelVars
<1>6. LiveIsListed'
  BY <1>1, <1>2, <1>3 DEF LiveIsListed, listVars, kernelVars
<1> QED BY <1>1, <1>2, <1>3, <1>4, <1>5, <1>6 DEF kernelVars

LEMMA AskKeeps ==
    ASSUME Inv, NEW t \in Threads, NEW f \in {"isRunning", "terminateAll"}, Ask(t, f)
    PROVE  Inv'
<1> USE ShellAssumption, EnginesAssumption DEF Op
<1>1. /\ Enter(t, f, NoPid) /\ UNCHANGED <<iRunningPid, engine, owned>>
      /\ \A e \in Engines : UserOf[e] = t => engine[e] = "idle"
  BY DEF Ask, Free, engineVars
<1>2. TypeOK'
  BY <1>1 DEF Enter, Inv, ShellInv, TypeOK, ShellTypeOK, Goto, Pc, listVars, handlerVars, kernelVars
<1>3. /\ ShellInv'
      /\ pc[t] = "idle" /\ pc'[t] /= "idle" /\ op'[t] = f
      /\ \A u \in Threads \ {t} : pc'[u] = pc[u] /\ op'[u] = op[u] /\ arg'[u] = arg[u]
      /\ UNCHANGED <<ret, child>>
  BY <1>1, <1>2, EnterKeeps DEF Inv
<1>4. \A u \in Threads, p \in Pids : Holds(u, p)' => Holds(u, p)
  <2> TAKE u \in Threads, p \in Pids
  <2>1. CASE u = t BY <1>1, <1>3, <2>1 DEF Holds
  <2>2. CASE u /= t BY <1>1, <1>3, <2>2 DEF Holds
  <2> QED BY <2>1, <2>2
<1>5. HeldInv'
  BY <1>1, <1>3, <1>4 DEF Inv, HeldInv
<1>6. EngineInv'
  BY <1>1, <1>3 DEF Inv, EngineInv
<1>7. OneTranscoder'
  BY <1>1, <1>3 DEF Inv, OneTranscoder
<1> QED BY <1>3, <1>5, <1>6, <1>7 DEF Inv

LEMMA KillRunningKeeps ==
    ASSUME Inv, NEW e \in Engines, NEW next \in {"killing", "restarting"}, KillRunning(e, next)
    PROVE  Inv'
<1> DEFINE t == UserOf[e]
<1> USE ShellAssumption, EnginesAssumption DEF Op
<1>1. /\ Enter(t, "terminate", iRunningPid[e]) /\ UNCHANGED <<iRunningPid, owned>>
      /\ engine' = [engine EXCEPT ![e] = next] /\ iRunningPid[e] /= NoPid
      /\ \A f \in Engines : UserOf[f] = t => engine[f] = "idle"
  BY DEF KillRunning, Free, EngineGoto
<1>2. t \in Threads /\ iRunningPid[e] \in Pids \cup {NoPid} /\ engine \in [Engines -> EngineState]
  BY DEF Inv, ShellInv, TypeOK
<1> HIDE DEF t
<1>3. TypeOK'
  <2>1. engine' \in [Engines -> EngineState]
    BY <1>1, <1>2 DEF EngineState
  <2> QED
    BY <1>1, <1>2, <2>1 DEF Enter, Inv, ShellInv, TypeOK, ShellTypeOK, Goto, Pc, listVars,
                            handlerVars, kernelVars
<1>4. /\ ShellInv'
      /\ pc[t] = "idle" /\ pc'[t] /= "idle" /\ op'[t] = "terminate" /\ arg'[t] = iRunningPid[e]
      /\ \A u \in Threads \ {t} : pc'[u] = pc[u] /\ op'[u] = op[u] /\ arg'[u] = arg[u]
      /\ UNCHANGED <<ret, child>>
  BY <1>1, <1>2, <1>3, EnterKeeps DEF Inv
<1>5. engine'[e] = next /\ \A f \in Engines \ {e} : engine'[f] = engine[f]
  BY <1>1, <1>2
<1>6. \A u \in Threads, p \in Pids : Holds(u, p)' => Holds(u, p)
  <2> TAKE u \in Threads, p \in Pids
  <2>1. CASE u = t BY <1>1, <1>4, <2>1 DEF Holds
  <2>2. CASE u /= t BY <1>1, <1>4, <1>5, <2>2 DEF Holds
  <2> QED BY <2>1, <2>2
<1>7. HeldInv'
  BY <1>1, <1>4, <1>6 DEF Inv, HeldInv
<1>8. EngineInv'
  <2>1. ASSUME NEW f \in Engines
        PROVE  /\ iRunningPid[f] \in owned[f] \cup {NoPid}
               /\ engine'[f] = "launching" => iRunningPid[f] = NoPid
               /\ engine'[f] = "launching" /\ pc'[UserOf[f]] /= "idle" => op'[UserOf[f]] = "launch"
               /\ engine'[f] \in {"killing", "restarting"} =>
                     /\ iRunningPid[f] /= NoPid
                     /\ IF pc'[UserOf[f]] = "idle"
                          THEN child'[iRunningPid[f]] /= "alive"
                          ELSE op'[UserOf[f]] = "terminate" /\ arg'[UserOf[f]] = iRunningPid[f]
    <3>1. CASE f = e BY <1>1, <1>4, <1>5, <3>1 DEF Inv, EngineInv, t
    <3>2. CASE f /= e /\ UserOf[f] = t
      BY <1>1, <1>5, <3>2 DEF Inv, EngineInv
    <3>3. CASE f /= e /\ UserOf[f] /= t
      BY <1>4, <1>5, <3>3 DEF Inv, EngineInv
    <3> QED BY <3>1, <3>2, <3>3
  <2>2. \A f, g \in Engines : UserOf[f] = UserOf[g] /\ engine'[f] /= "idle" /\ engine'[g] /= "idle" => f = g
    BY <1>1, <1>5 DEF Inv, EngineInv, t
  <2>3. ASSUME NEW u \in Threads, op'[u] = "launch"
        PROVE  \E f \in Engines : UserOf[f] = u /\ engine'[f] = "launching"
    <3>1. u /= t /\ op[u] = "launch"
      BY <1>4, <2>3
    <3>2. PICK f \in Engines : UserOf[f] = u /\ engine[f] = "launching"
      BY <3>1 DEF Inv, EngineInv
    <3> QED BY <1>5, <3>1, <3>2 DEF t
  <2> QED BY <1>1, <2>1, <2>2, <2>3 DEF EngineInv
<1>9. OneTranscoder'
  BY <1>1, <1>4 DEF Inv, OneTranscoder
<1> QED BY <1>4, <1>7, <1>8, <1>9 DEF Inv

\* start calls launch, with no process that the engine knows of any more.
LEMMA LaunchBegins ==
    ASSUME Inv, NEW e \in Engines, Enter(UserOf[e], "launch", NoPid),
           \A f \in Engines : f /= e /\ UserOf[f] = UserOf[e] => engine[f] = "idle",
           iRunningPid[e] = NoPid \/ child[iRunningPid[e]] /= "alive",
           iRunningPid' = [iRunningPid EXCEPT ![e] = NoPid],
           engine' = [engine EXCEPT ![e] = "launching"], UNCHANGED owned
    PROVE  Inv'
<1> DEFINE t == UserOf[e]
<1> USE ShellAssumption, EnginesAssumption DEF Op
<1>1. t \in Threads /\ engine \in [Engines -> EngineState]
      /\ iRunningPid \in [Engines -> Pids \cup {NoPid}]
  BY DEF Inv, ShellInv, TypeOK
<1>2. Enter(t, "launch", NoPid)
  OBVIOUS
<1> HIDE DEF t
<1>3. TypeOK'
  <2>1. engine' \in [Engines -> EngineState] /\ iRunningPid' \in [Engines -> Pids \cup {NoPid}]
    BY <1>1 DEF EngineState
  <2> QED
    BY <1>1, <1>2, <2>1 DEF Enter, Inv, ShellInv, TypeOK, ShellTypeOK, Goto, Pc, listVars,
                            handlerVars, kernelVars
<1>4. /\ ShellInv'
      /\ pc[t] = "idle" /\ pc'[t] /= "idle" /\ op'[t] = "launch" /\ arg'[t] = NoPid
      /\ \A u \in Threads \ {t} : pc'[u] = pc[u] /\ op'[u] = op[u] /\ arg'[u] = arg[u]
      /\ UNCHANGED <<ret, child>>
  BY <1>1, <1>2, <1>3, EnterKeeps DEF Inv
<1>5. /\ engine'[e] = "launching" /\ iRunningPid'[e] = NoPid
      /\ \A f \in Engines \ {e} : engine'[f] = engine[f] /\ iRunningPid'[f] = iRunningPid[f]
  BY <1>1
<1>6. \A u \in Threads, p \in Pids : Holds(u, p)' => Holds(u, p)
  <2> TAKE u \in Threads, p \in Pids
  <2>1. CASE u = t BY <1>4, <2>1 DEF Holds
  <2>2. CASE u /= t BY <1>4, <1>5, <2>2 DEF Holds, t
  <2> QED BY <2>1, <2>2
<1>7. HeldInv'
  BY <1>4, <1>6 DEF Inv, HeldInv
<1>8. EngineInv'
  <2>1. ASSUME NEW f \in Engines
        PROVE  /\ iRunningPid'[f] \in owned[f] \cup {NoPid}
               /\ engine'[f] = "launching" => iRunningPid'[f] = NoPid
               /\ engine'[f] = "launching" /\ pc'[UserOf[f]] /= "idle" => op'[UserOf[f]] = "launch"
               /\ engine'[f] \in {"killing", "restarting"} =>
                     /\ iRunningPid'[f] /= NoPid
                     /\ IF pc'[UserOf[f]] = "idle"
                          THEN child'[iRunningPid'[f]] /= "alive"
                          ELSE op'[UserOf[f]] = "terminate" /\ arg'[UserOf[f]] = iRunningPid'[f]
    <3>1. CASE f = e BY <1>4, <1>5, <3>1 DEF t
    <3>2. CASE f /= e /\ UserOf[f] = t
      BY <1>5, <3>2 DEF Inv, EngineInv, t
    <3>3. CASE f /= e /\ UserOf[f] /= t
      BY <1>4, <1>5, <3>3 DEF Inv, EngineInv
    <3> QED BY <3>1, <3>2, <3>3
  <2>2. \A f, g \in Engines : UserOf[f] = UserOf[g] /\ engine'[f] /= "idle" /\ engine'[g] /= "idle" => f = g
    BY <1>5 DEF Inv, EngineInv
  <2>3. ASSUME NEW u \in Threads, op'[u] = "launch"
        PROVE  \E f \in Engines : UserOf[f] = u /\ engine'[f] = "launching"
    <3>1. CASE u = t
      BY <1>5, <3>1 DEF t
    <3>2. CASE u /= t
      <4>1. PICK f \in Engines : UserOf[f] = u /\ engine[f] = "launching"
        BY <1>4, <2>3, <3>2 DEF Inv, EngineInv
      <4> QED BY <1>5, <4>1
    <3> QED BY <3>1, <3>2
  <2> QED BY <2>1, <2>2, <2>3 DEF EngineInv
<1>9. OneTranscoder'
  <2>1. \A f \in Engines : owned[f] \subseteq Pids
    BY DEF Inv, ShellInv, TypeOK
  <2> QED BY <1>4, <1>5, <2>1 DEF Inv, OneTranscoder
<1> QED BY <1>4, <1>7, <1>8, <1>9 DEF Inv

\* An engine's start, when it has nothing to kill and when what it had is killed.
LEMMA StartsKeep ==
    ASSUME Inv, NEW e \in Engines,
           StartFirst(e) \/ (engine[e] = "restarting" /\ Killed(e))
    PROVE  Inv'
<1> USE EnginesAssumption
<1>1. iRunningPid \in [Engines -> Pids \cup {NoPid}]
  BY DEF Inv, ShellInv, TypeOK
<1>2. CASE StartFirst(e)
  <2>1. /\ Enter(UserOf[e], "launch", NoPid) /\ engine' = [engine EXCEPT ![e] = "launching"]
        /\ UNCHANGED <<iRunningPid, owned>> /\ iRunningPid[e] = NoPid
        /\ \A f \in Engines : UserOf[f] = UserOf[e] => engine[f] = "idle"
    BY <1>2 DEF StartFirst, Free, EngineGoto
  <2>2. iRunningPid' = [iRunningPid EXCEPT ![e] = NoPid]
    BY <1>1, <2>1
  <2> QED BY <2>1, <2>2, LaunchBegins
<1>3. CASE engine[e] = "restarting" /\ Killed(e)
  <2>1. /\ Enter(UserOf[e], "launch", NoPid) /\ engine' = [engine EXCEPT ![e] = "launching"]
        /\ iRunningPid' = [iRunningPid EXCEPT ![e] = NoPid] /\ UNCHANGED owned
        /\ pc[UserOf[e]] = "idle"
    BY <1>3 DEF Killed, EngineGoto, At
  <2>2. child[iRunningPid[e]] /= "alive"
    BY <1>3, <2>1 DEF Inv, EngineInv
  <2>3. \A f \in Engines : f /= e /\ UserOf[f] = UserOf[e] => engine[f] = "idle"
    BY <1>3 DEF Inv, EngineInv
  <2> QED BY <2>1, <2>2, <2>3, LaunchBegins
<1> QED BY <1>2, <1>3

\* The destructor's killRunningProcess is done.
LEMMA KilledKeeps ==
    ASSUME Inv, NEW e \in Engines, engine[e] = "killing", Killed(e)
    PROVE  Inv'
<1> USE EnginesAssumption, ShellAssumption
<1>1. /\ iRunningPid' = [iRunningPid EXCEPT ![e] = NoPid]
      /\ engine' = [engine EXCEPT ![e] = "idle"] /\ UNCHANGED owned /\ UNCHANGED shellVars
      /\ pc[UserOf[e]] = "idle"
  BY DEF Killed, EngineGoto, At
<1>2. /\ UNCHANGED <<gRunningList, gZombieList, gZombieCount, gMutex, pc, op, arg, seen, ret>>
      /\ UNCHANGED <<handler, deadChildPid, read, callback, sigchld, child, inherited, called,
                     crashed>>
  BY <1>1 DEF shellVars, listVars, threadVars, handlerVars, kernelVars
<1>3. engine \in [Engines -> EngineState] /\ iRunningPid \in [Engines -> Pids \cup {NoPid}]
  BY DEF Inv, ShellInv, TypeOK
<1>4. engine' \in [Engines -> EngineState] /\ iRunningPid' \in [Engines -> Pids \cup {NoPid}]
  BY <1>1, <1>3 DEF EngineState
<1>5. ShellInv'
  BY <1>1, <1>2, <1>4 DEF Inv, ShellInv, TypeOK, ShellTypeOK, CallInv, ZombieInv, LiveIsListed
<1>6. /\ engine'[e] = "idle" /\ iRunningPid'[e] = NoPid
      /\ \A f \in Engines \ {e} : engine'[f] = engine[f] /\ iRunningPid'[f] = iRunningPid[f]
  BY <1>1, <1>3
<1>7. HeldInv'
  <2>1. \A u \in Threads, p \in Pids : Holds(u, p)' => Holds(u, p)
    BY <1>2, <1>6 DEF Holds
  <2> QED BY <1>1, <1>2, <2>1 DEF Inv, HeldInv
<1>8. EngineInv'
  <2>1. op[UserOf[e]] /= "launch"
    BY <1>1, <1>3 DEF Inv, ShellInv, TypeOK, CallInv
  <2>2. ASSUME NEW u \in Threads, op[u] = "launch"
        PROVE  \E f \in Engines : UserOf[f] = u /\ engine'[f] = "launching"
    <3>1. PICK f \in Engines : UserOf[f] = u /\ engine[f] = "launching"
      BY <2>2 DEF Inv, EngineInv
    <3> QED BY <1>6, <3>1
  <2> QED BY <1>1, <1>2, <1>6, <2>2 DEF Inv, EngineInv
<1>9. OneTranscoder'
  <2>1. child[iRunningPid[e]] /= "alive"
    BY <1>1 DEF Inv, EngineInv
  <2>2. \A f \in Engines : owned[f] \subseteq Pids
    BY DEF Inv, ShellInv, TypeOK
  <2> QED BY <1>1, <1>2, <1>6, <2>1, <2>2 DEF Inv, OneTranscoder
<1> QED BY <1>5, <1>7, <1>8, <1>9 DEF Inv

\* A command that launch rejects leaves nothing behind.
LEMMA RefusedKeeps ==
    ASSUME Inv, NEW e \in Engines, StartRefused(e)
    PROVE  Inv'
<1> USE EnginesAssumption, ShellAssumption
<1> DEFINE t == UserOf[e]
<1>1. /\ UNCHANGED <<iRunningPid, owned>> /\ engine' = [engine EXCEPT ![e] = "launching"]
      /\ ret' = [ret EXCEPT ![t] = NoPid] /\ pc[t] = "idle" /\ iRunningPid[e] = NoPid
      /\ \A f \in Engines : UserOf[f] = t => engine[f] = "idle"
  BY DEF StartRefused, Free, EngineGoto, LaunchRefused, At
<1>2. /\ UNCHANGED <<gRunningList, gZombieList, gZombieCount, gMutex, pc, op, arg, seen>>
      /\ UNCHANGED <<handler, deadChildPid, read, callback, sigchld, child, inherited, called,
                     crashed>>
  BY DEF StartRefused, LaunchRefused, listVars, handlerVars, kernelVars
<1>3. engine \in [Engines -> EngineState] /\ ret \in [Threads -> Pids \cup {NoPid}] /\ t \in Threads
  BY DEF Inv, ShellInv, TypeOK, ShellTypeOK
<1>4. engine' \in [Engines -> EngineState] /\ ret' \in [Threads -> Pids \cup {NoPid}]
  BY <1>1, <1>3 DEF EngineState
<1>5. ShellInv'
  BY <1>1, <1>2, <1>4 DEF Inv, ShellInv, TypeOK, ShellTypeOK, CallInv, ZombieInv, LiveIsListed
<1>6. /\ engine'[e] = "launching" /\ \A f \in Engines \ {e} : engine'[f] = engine[f]
      /\ ret'[t] = NoPid /\ \A u \in Threads \ {t} : ret'[u] = ret[u]
  BY <1>1, <1>3
<1>7. op[t] = "none"
  BY <1>1, <1>3 DEF Inv, ShellInv, CallInv
<1>8. \A u \in Threads, p \in Pids : Holds(u, p)' => Holds(u, p)
  <2> TAKE u \in Threads, p \in Pids
  <2>1. CASE u = t BY <1>2, <1>6, <1>7, <2>1 DEF Holds
  <2>2. CASE u /= t BY <1>2, <1>6, <2>2 DEF Holds
  <2> QED BY <2>1, <2>2
<1>9. HeldInv'
  BY <1>1, <1>2, <1>8 DEF Inv, HeldInv
<1>10. EngineInv'
  <2>1. ASSUME NEW u \in Threads, op[u] = "launch"
        PROVE  \E f \in Engines : UserOf[f] = u /\ engine'[f] = "launching"
    <3>1. PICK f \in Engines : UserOf[f] = u /\ engine[f] = "launching"
      BY <2>1 DEF Inv, EngineInv
    <3> QED BY <1>6, <3>1
  <2>2. \A f, g \in Engines : UserOf[f] = UserOf[g] /\ engine'[f] /= "idle" /\ engine'[g] /= "idle" => f = g
    BY <1>1, <1>6 DEF Inv, EngineInv
  <2>3. \A f \in Engines : f = e \/ engine'[f] = engine[f]
    BY <1>6
  <2> QED BY <1>1, <1>2, <1>6, <2>1, <2>2, <2>3 DEF Inv, EngineInv
<1>11. OneTranscoder'
  BY <1>1, <1>2 DEF Inv, OneTranscoder
<1> QED BY <1>5, <1>9, <1>10, <1>11 DEF Inv

\* What launch returned passes from the thread to the engine, which had none.
LEMMA LaunchedKeeps ==
    ASSUME Inv, NEW e \in Engines, Launched(e)
    PROVE  Inv'
<1> USE EnginesAssumption, ShellAssumption
<1> DEFINE t == UserOf[e]
           pid == ret[t]
<1>1. /\ iRunningPid' = [iRunningPid EXCEPT ![e] = pid]
      /\ owned' = [owned EXCEPT ![e] = owned[e] \cup ({pid} \ {NoPid})]
      /\ engine' = [engine EXCEPT ![e] = "idle"] /\ engine[e] = "launching"
      /\ pc[t] = "idle" /\ UNCHANGED shellVars
  BY DEF Launched, EngineGoto, At
<1>2. /\ UNCHANGED <<gRunningList, gZombieList, gZombieCount, gMutex, pc, op, arg, seen, ret>>
      /\ UNCHANGED <<handler, deadChildPid, read, callback, sigchld, child, inherited, called,
                     crashed>>
  BY <1>1 DEF shellVars, listVars, threadVars, handlerVars, kernelVars
<1>3. /\ engine \in [Engines -> EngineState] /\ iRunningPid \in [Engines -> Pids \cup {NoPid}]
      /\ owned \in [Engines -> SUBSET Pids] /\ t \in Threads /\ pid \in Pids \cup {NoPid}
  BY DEF Inv, ShellInv, TypeOK, ShellTypeOK
<1>4. pid \in Pids => Holds(t, pid)
  BY <1>1 DEF Holds
<1>5. op[t] = "none"
  BY <1>1, <1>3 DEF Inv, ShellInv, CallInv
<1> HIDE DEF t, pid
<1>6. /\ engine' \in [Engines -> EngineState] /\ iRunningPid' \in [Engines -> Pids \cup {NoPid}]
      /\ owned' \in [Engines -> SUBSET Pids]
  BY <1>1, <1>3 DEF EngineState
<1>7. ShellInv'
  BY <1>2, <1>6 DEF Inv, ShellInv, TypeOK, ShellTypeOK, CallInv, ZombieInv, LiveIsListed
<1>8. /\ engine'[e] = "idle" /\ iRunningPid'[e] = pid /\ owned'[e] = owned[e] \cup ({pid} \ {NoPid})
      /\ \A f \in Engines \ {e} : /\ engine'[f] = engine[f] /\ iRunningPid'[f] = iRunningPid[f]
                                  /\ owned'[f] = owned[f]
  BY <1>1, <1>3
<1>9. ASSUME NEW u \in Threads, NEW p \in Pids, Holds(u, p)'
      PROVE  Holds(u, p) /\ u /= t
  <2>1. Holds(u, p)
    BY <1>2, <1>8, <1>9 DEF Holds
  <2>2. ASSUME NEW f \in Engines, UserOf[f] = t PROVE engine'[f] = "idle"
    BY <1>1, <1>8, <2>2 DEF Inv, EngineInv, t
  <2>3. u /= t
    BY <1>2, <1>5, <1>9, <2>2 DEF Holds
  <2> QED BY <2>1, <2>3
<1>10. HeldInv'
  <2>1. ASSUME NEW u \in Threads, NEW p \in Pids, Holds(u, p)'
        PROVE  child[p] /= "new" /\ \A f \in Engines : p \notin owned'[f]
    <3>1. Holds(u, p) /\ p /= pid
      BY <1>3, <1>4, <1>9, <2>1 DEF Inv, HeldInv
    <3> QED BY <1>8, <3>1 DEF Inv, HeldInv
  <2>2. \A u, v \in Threads, p \in Pids : Holds(u, p)' /\ Holds(v, p)' => u = v
    BY <1>9 DEF Inv, HeldInv
  <2>3. ASSUME NEW f \in Engines, NEW p \in owned'[f] PROVE child[p] /= "new"
    <3>1. p \in owned[f] \/ (p = pid /\ pid \in Pids)
      BY <1>3, <1>8, <2>3
    <3> QED BY <1>3, <1>4, <3>1 DEF Inv, HeldInv
  <2> QED BY <1>2, <2>1, <2>2, <2>3 DEF HeldInv
<1>11. EngineInv'
  <2>1. ASSUME NEW f \in Engines PROVE iRunningPid'[f] \in owned'[f] \cup {NoPid}
    BY <1>3, <1>8, <2>1 DEF Inv, EngineInv
  <2>2. \A u \in Threads : op[u] = "launch" => \E f \in Engines : UserOf[f] = u /\ engine'[f] = "launching"
    <3> SUFFICES ASSUME NEW u \in Threads, op[u] = "launch"
                 PROVE  \E f \in Engines : UserOf[f] = u /\ engine'[f] = "launching"
      OBVIOUS
    <3>1. PICK f \in Engines : UserOf[f] = u /\ engine[f] = "launching"
      BY DEF Inv, EngineInv
    <3>2. f /= e
      BY <1>5, <3>1 DEF t
    <3> QED BY <1>8, <3>1, <3>2
  <2>3. \A f \in Engines : engine'[f] = "idle" \/ (engine'[f] = engine[f] /\ iRunningPid'[f] = iRunningPid[f])
    BY <1>8
  <2> QED BY <1>2, <2>1, <2>2, <2>3 DEF Inv, EngineInv
<1>12. OneTranscoder'
  <2> SUFFICES ASSUME NEW f \in Engines, NEW p \in owned'[f], child[p] = "alive"
               PROVE  p = iRunningPid'[f]
    BY <1>2 DEF OneTranscoder
  <2>1. CASE f /= e BY <1>8, <2>1 DEF Inv, OneTranscoder
  <2>2. CASE f = e
    <3>1. iRunningPid[e] = NoPid
      BY <1>1 DEF Inv, EngineInv
    <3>2. p \in Pids
      BY <1>6
    <3>3. p \notin owned[e]
      BY <2>2, <3>1, <3>2 DEF Inv, OneTranscoder
    <3> QED BY <1>8, <2>2, <3>3
  <2> QED BY <2>1, <2>2
<1> QED BY <1>7, <1>10, <1>11, <1>12 DEF Inv

\* A process that ends, and whoever it takes along, is no longer alive.
LEMMA ChildKeeps ==
    ASSUME Inv, NEW p \in Pids, Die(p) \/ ExecFails(p), UNCHANGED engineVars
    PROVE  Inv'
<1> USE EnginesAssumption, ShellAssumption
<1>1. /\ UNCHANGED <<gRunningList, gZombieList, gZombieCount, gMutex, pc, op, arg, seen, ret>>
      /\ UNCHANGED <<handler, deadChildPid, read, callback, called, crashed>>
      /\ UNCHANGED <<iRunningPid, engine, owned>>
      /\ sigchld' = TRUE /\ inherited' = [inherited EXCEPT ![p] = {}]
  BY DEF Die, ExecFails, listVars, threadVars, handlerVars, engineVars
<1>2. child \in [Pids -> ChildState] /\ inherited \in [Pids -> SUBSET Pids]
  BY DEF Inv, ShellInv, TypeOK, ShellTypeOK
<1>3. /\ child' \in [Pids -> ChildState]
      /\ \A q \in Pids : \/ child'[q] = child[q]
                         \/ child[q] \in {"alive", "killed"} /\ child'[q] \in {"killed", "dead"}
  <2>1. CASE Die(p) BY <1>2, <2>1 DEF Die, ChildState
  <2>2. CASE ExecFails(p) BY <1>2, <2>2 DEF ExecFails, ChildState
  <2> QED BY <2>1, <2>2
<1>4. TypeOK'
  <2>1. inherited' \in [Pids -> SUBSET Pids]
    BY <1>1, <1>2
  <2> QED BY <1>1, <1>3, <2>1 DEF Inv, ShellInv, TypeOK, ShellTypeOK
<1>5. CallInv'
  BY <1>1 DEF Inv, ShellInv, CallInv
<1>6. ZombieInv'
  <2>1. \A q \in Pids : child[q] = "reaped" => child'[q] = "reaped"
    BY <1>3
  <2> QED BY <1>1, <2>1 DEF Inv, ShellInv, ZombieInv
<1>7. LiveIsListed'
  BY <1>1, <1>3 DEF Inv, ShellInv, LiveIsListed
<1>8. \A e \in Engines : owned[e] \subseteq Pids
  BY DEF Inv, ShellInv, TypeOK
<1>9. HeldInv'
  <2>1. \A q \in Pids : child[q] /= "new" => child'[q] /= "new"
    BY <1>3
  <2>2. \A u \in Threads, q \in Pids : Holds(u, q)' <=> Holds(u, q)
    BY <1>1 DEF Holds
  <2> QED BY <1>1, <1>8, <2>1, <2>2 DEF Inv, HeldInv
<1>10. EngineInv'
  <2>1. \A e \in Engines : iRunningPid[e] \in Pids \cup {NoPid}
    BY DEF Inv, ShellInv, TypeOK
  <2>2. \A e \in Engines : iRunningPid[e] /= NoPid /\ child[iRunningPid[e]] /= "alive" =>
                              child'[iRunningPid[e]] /= "alive"
    BY <1>3, <2>1
  <2> QED BY <1>1, <2>2 DEF Inv, EngineInv
<1>11. OneTranscoder'
  BY <1>1, <1>3, <1>8 DEF Inv, OneTranscoder
<1> QED BY <1>4, <1>5, <1>6, <1>7, <1>9, <1>10, <1>11 DEF Inv, ShellInv

LEMMA StutterKeeps == Inv /\ UNCHANGED vars => Inv'
<1> SUFFICES ASSUME Inv, UNCHANGED vars PROVE Inv'
  OBVIOUS
<1>1. /\ UNCHANGED <<gRunningList, gZombieList, gZombieCount, gMutex, pc, op, arg, seen, ret>>
      /\ UNCHANGED <<handler, deadChildPid, read, callback, sigchld, child, inherited, called,
                     crashed>>
      /\ UNCHANGED <<iRunningPid, engine, owned>>
  BY DEF vars, shellVars, engineVars, listVars, threadVars, handlerVars, kernelVars
<1>2. ShellInv'
  BY <1>1 DEF Inv, ShellInv, TypeOK, ShellTypeOK, CallInv, ZombieInv, LiveIsListed
<1>3. HeldInv' /\ OneTranscoder'
  BY <1>1 DEF Inv, HeldInv, Holds, OneTranscoder
<1>4. EngineInv'
  BY <1>1 DEF Inv, EngineInv
<1> QED BY <1>2, <1>3, <1>4 DEF Inv

-----------------------------------------------------------------------------
(* The theorems                                                            *)

LEMMA InvStep == Inv /\ [Next]_vars => Inv'
<1> SUFFICES ASSUME Inv, [Next]_vars PROVE Inv'
  OBVIOUS
<1>1. ASSUME NEW t \in Threads, NEW f \in {"isRunning", "terminateAll"}, Ask(t, f) PROVE Inv'
  BY <1>1, AskKeeps
<1>2. ASSUME NEW t \in Threads, FunctionStep(t) \/ Deliver(t) \/ HandlerStep(t), UNCHANGED engineVars
      PROVE  Inv'
  BY <1>2, ShellStepKeeps
<1>3. ASSUME NEW e \in Engines, KillRunning(e, "killing") \/ KillRunning(e, "restarting") PROVE Inv'
  BY <1>3, KillRunningKeeps
<1>4. ASSUME NEW e \in Engines, StartFirst(e) PROVE Inv'
  BY <1>4, StartsKeep
<1>5. ASSUME NEW e \in Engines, StartRefused(e) PROVE Inv'
  BY <1>5, RefusedKeeps
<1>6. ASSUME NEW e \in Engines, EngineStep(e) PROVE Inv'
  <2>1. CASE Killed(e)
    <3>1. engine[e] \in {"killing", "restarting"}
      BY <2>1 DEF Killed
    <3> QED BY <2>1, <3>1, KilledKeeps, StartsKeep
  <2>2. CASE Launched(e)
    BY <2>2, LaunchedKeeps
  <2> QED BY <1>6, <2>1, <2>2 DEF EngineStep
<1>7. ASSUME NEW p \in Pids, Die(p) \/ ExecFails(p), UNCHANGED engineVars PROVE Inv'
  BY <1>7, ChildKeeps
<1>8. CASE UNCHANGED vars
  BY <1>8, StutterKeeps
<1> QED BY <1>1, <1>2, <1>3, <1>4, <1>5, <1>6, <1>7, <1>8 DEF Next

LEMMA SpecInv == Spec => []Inv
  BY InvInit, InvStep, PTL DEF Spec

\* launch returns a pid or 0, never fork's -1, and each thread and each handler works
\* on an entry of gZombieList, however many calls and handlers overlap and however
\* far gZombieCount has gone beyond the list.
THEOREM WellFormed == Spec => []TypeOK
<1>1. Inv => TypeOK
  BY DEF Inv, ShellInv
<1> QED BY <1>1, SpecInv, PTL

\* terminate and terminateAll can reach every process whose launch has returned, for
\* as long as it lives: what cleanZombie erases from gRunningList has been reaped,
\* wherever the SIGCHLD handler interrupts it.
THEOREM NoneIsLost == Spec => []LiveIsListed
<1>1. Inv => LiveIsListed
  BY DEF Inv, ShellInv
<1> QED BY <1>1, SpecInv, PTL

\* Any number of engines on any number of threads: of all the processes an engine has
\* launched only the one it knows can be alive, so that a transcoder is never
\* left behind by start or by the destructor.
THEOREM OneForEachEngine == Spec => []OneTranscoder
<1>1. Inv => OneTranscoder
  BY DEF Inv
<1> QED BY <1>1, SpecInv, PTL

-----------------------------------------------------------------------------
(* The process table                                                       *)

\* A handler has a process in hand between Reap and HandlerCall; no other handler has
\* that one, and its callback has not been called.
HandlerInv ==
    /\ \A t \in Threads :
          /\ deadChildPid[t] \in Pids <=> handler[t] \notin {"off", "top"}
          /\ callback[t] => handler[t] \in {"append", "count", "call"}
          /\ deadChildPid[t] \notin called
          /\ \A u \in Threads : deadChildPid[u] = deadChildPid[t] /\ deadChildPid[t] \in Pids => u = t
    /\ \A p \in called : child[p] = "reaped"

\* What is listed, or a copy of the program takes for listed, has been launched.
EntryInv ==
    /\ \A p \in gRunningList : child[p] /= "new" /\ ~Starting(p)
    /\ \A p \in Pids : \A q \in inherited[p] : child[q] /= "new" /\ ~Starting(q)

TableInv == Inv /\ HandlerInv /\ EntryInv

\* What the invariant and the table speak of is as it was.
TableSame ==
    /\ UNCHANGED <<gRunningList, child, inherited>>
    /\ UNCHANGED <<handler, deadChildPid, callback, called>>
    /\ \A p \in Pids : Starting(p)' <=> Starting(p)

LEMMA TableInit == Init => HandlerInv /\ EntryInv /\ Table!Init
<1> SUFFICES ASSUME Init PROVE HandlerInv /\ EntryInv /\ Table!Init
  OBVIOUS
<1> USE ShellAssumption DEF Init, ShellInit
<1>1. HandlerInv
  BY DEF HandlerInv
<1>2. EntryInv
  BY DEF EntryInv
<1>3. Entry = [p \in Pids |-> "none"]
  BY DEF Entry
<1>4. Due = {}
  BY DEF Due
<1> QED BY <1>1, <1>2, <1>3, <1>4 DEF Table!Init

LEMMA SameKeeps ==
    ASSUME TableInv, TableSame
    PROVE  HandlerInv' /\ EntryInv' /\ UNCHANGED Table!vars
<1>1. HandlerInv'
  BY DEF TableInv, HandlerInv, TableSame
<1>2. gRunningList \subseteq Pids /\ inherited \in [Pids -> SUBSET Pids]
  BY DEF TableInv, Inv, ShellInv, TypeOK, ShellTypeOK
<1>3. EntryInv'
  BY <1>2 DEF TableInv, EntryInv, TableSame
<1>4. Entry' = Entry
  BY DEF Entry, TableSame
<1>5. Due' = Due
  BY DEF Due, TableSame
<1> QED BY <1>1, <1>3, <1>4, <1>5 DEF Table!vars, TableSame

\* A thread begins or ends a call of the shell, as its user sees it.
LEMMA CallSame ==
    ASSUME TableInv, NEW t \in Threads,
           \/ \E f \in Op \ {"none"}, p \in Pids \cup {NoPid} :
                 (f = "launch" => p = NoPid) /\ Enter(t, f, p)
           \/ LaunchRefused(t)
           \/ UNCHANGED shellVars
    PROVE  TableSame
<1> USE ShellAssumption
<1>1. UNCHANGED <<listVars, handlerVars, kernelVars, called>>
  BY DEF Enter, LaunchRefused, shellVars
<1>2. \A p \in Pids : Starting(p)' <=> Starting(p)
  <2>1. CASE UNCHANGED <<op, arg>>
    BY <2>1 DEF Starting
  <2>2. ASSUME NEW f \in Op \ {"none"}, NEW p \in Pids \cup {NoPid},
               f = "launch" => p = NoPid, Enter(t, f, p)
        PROVE  \A q \in Pids : Starting(q)' <=> Starting(q)
    <3>1. /\ op' = [op EXCEPT ![t] = f] /\ arg' = [arg EXCEPT ![t] = p] /\ pc[t] = "idle"
          /\ op \in [Threads -> Op] /\ arg \in [Threads -> Pids \cup {NoPid}]
      BY <2>2 DEF Enter, At, TableInv, Inv, ShellInv, TypeOK, ShellTypeOK
    <3>2. op[t] = "none"
      BY <3>1 DEF TableInv, Inv, ShellInv, CallInv
    <3>3. ASSUME NEW u \in Threads, NEW q \in Pids
          PROVE  (op'[u] = "launch" /\ arg'[u] = q) <=> (op[u] = "launch" /\ arg[u] = q)
      BY <2>2, <3>1, <3>2
    <3> QED BY <3>3 DEF Starting
  <2> QED BY <2>1, <2>2 DEF LaunchRefused, shellVars, threadVars
<1> QED BY <1>1, <1>2 DEF TableSame, listVars, handlerVars, kernelVars

-----------------------------------------------------------------------------
\* The code of a thread leaves the handlers alone.
LEMMA HandlersStay ==
    ASSUME TableInv, UNCHANGED <<handlerVars, called>>,
           \A p \in Pids : child[p] = "reaped" => child'[p] = "reaped"
    PROVE  HandlerInv' /\ Due' = Due
<1>1. UNCHANGED <<handler, deadChildPid, callback, called>>
  BY DEF handlerVars
<1>2. called \subseteq Pids
  BY DEF TableInv, Inv, ShellInv, TypeOK, ShellTypeOK
<1>3. HandlerInv'
  BY <1>1, <1>2 DEF TableInv, HandlerInv
<1> QED BY <1>1, <1>3 DEF Due

\* The steps of a thread between those that change the list or a process.
LEMMA FunctionSame ==
    ASSUME TableInv, NEW t \in Threads,
           Lock(t) \/ CleanTest(t) \/ CleanDecrement(t) \/ ForkFails(t) \/ IsRunning(t)
    PROVE  TableSame
<1> USE ShellAssumption
<1>1. UNCHANGED <<gRunningList, child, inherited, handlerVars, called>>
  BY DEF Lock, CleanTest, CleanDecrement, ForkFails, IsRunning, Return, listVars, kernelVars
<1>2. \A p \in Pids : Starting(p)' <=> Starting(p)
  <2>1. CASE UNCHANGED <<op, arg>>
    BY <2>1 DEF Starting
  <2>2. /\ op \in [Threads -> Op] /\ arg \in [Threads -> Pids \cup {NoPid}]
    BY DEF TableInv, Inv, ShellInv, TypeOK, ShellTypeOK
  <2>3. CASE ForkFails(t)
    <3>1. op' = [op EXCEPT ![t] = "none"] /\ arg' = arg /\ arg[t] = NoPid
      BY <2>3 DEF ForkFails, At, TableInv, Inv, ShellInv, CallInv
    <3> QED BY <2>2, <3>1 DEF Starting
  <2>4. CASE IsRunning(t)
    <3>1. /\ op' = [op EXCEPT ![t] = "none"] /\ arg' = [arg EXCEPT ![t] = NoPid]
          /\ op[t] /= "launch"
      BY <2>4 DEF IsRunning, Return
    <3> QED BY <2>2, <3>1 DEF Starting
  <2> QED BY <2>1, <2>3, <2>4 DEF Lock, CleanTest, CleanDecrement
<1> QED BY <1>1, <1>2 DEF TableSame, handlerVars

LEMMA ForkStarts ==
    ASSUME TableInv, NEW t \in Threads, NEW p \in Pids, Fork(t, p)
    PROVE  EntryInv' /\ Table!Start(p)
<1> USE ShellAssumption
<1>1. /\ child[p] = "new" /\ child' = [child EXCEPT ![p] = "alive"]
      /\ inherited' = [inherited EXCEPT ![p] = IF gMutex = NoThread THEN gRunningList ELSE {}]
      /\ arg' = [arg EXCEPT ![t] = p] /\ op[t] = "launch" /\ arg[t] = NoPid
      /\ UNCHANGED <<gRunningList, op, handlerVars, called>>
  BY DEF Fork, At, listVars, TableInv, Inv, ShellInv, CallInv
<1>2. /\ child \in [Pids -> ChildState] /\ inherited \in [Pids -> SUBSET Pids]
      /\ gRunningList \subseteq Pids /\ arg \in [Threads -> Pids \cup {NoPid}]
  BY DEF TableInv, Inv, ShellInv, TypeOK, ShellTypeOK
<1>3. ASSUME NEW q \in Pids PROVE Starting(q)' <=> Starting(q) \/ q = p
  <2>1. /\ arg'[t] = p /\ op'[t] = "launch"
        /\ \A u \in Threads \ {t} : arg'[u] = arg[u] /\ op'[u] = op[u]
    BY <1>1, <1>2
  <2> QED BY <1>1, <2>1 DEF Starting
<1>4. ~Starting(p) /\ p \notin gRunningList /\ \A q \in Pids : p \notin inherited[q]
  BY <1>1 DEF TableInv, EntryInv, Inv, HeldInv, Holds, Starting
<1>5. \A q \in Pids : child'[q] = "new" <=> child[q] = "new" /\ q /= p
  BY <1>1, <1>2
<1>6. EntryInv'
  <2>1. ASSUME NEW q \in gRunningList PROVE child'[q] /= "new" /\ ~Starting(q)'
    BY <1>2, <1>3, <1>4, <1>5, <2>1 DEF TableInv, EntryInv
  <2>2. ASSUME NEW r \in Pids, NEW q \in inherited'[r] PROVE child'[q] /= "new" /\ ~Starting(q)'
    <3>1. q \in inherited[r] \/ q \in gRunningList
      BY <1>1, <1>2, <2>2
    <3>2. CASE q \in gRunningList
      BY <2>1, <3>2
    <3>3. CASE q \in inherited[r]
      BY <1>2, <1>3, <1>4, <1>5, <3>3 DEF TableInv, EntryInv
    <3> QED BY <3>1, <3>2, <3>3
  <2> QED BY <1>1, <2>1, <2>2 DEF EntryInv
<1>7. Entry[p] = "none" /\ Entry' = [Entry EXCEPT ![p] = "starting"]
  BY <1>1, <1>3, <1>4, <1>5 DEF Entry
<1>8. Due' = Due
  BY <1>1 DEF Due, handlerVars
<1> QED BY <1>1, <1>6, <1>7, <1>8 DEF Table!Start

LEMMA InsertLists ==
    ASSUME TableInv, NEW t \in Threads, LaunchInsert(t)
    PROVE  EntryInv' /\ \E p \in Pids : Table!List(p)
<1> USE ShellAssumption
<1> DEFINE p == arg[t]
<1>1. /\ op[t] = "launch" /\ gRunningList' = gRunningList \cup {p}
      /\ op' = [op EXCEPT ![t] = "none"] /\ arg' = [arg EXCEPT ![t] = NoPid]
      /\ pc[t] = "locked"
      /\ UNCHANGED <<child, inherited, handlerVars, called>>
  BY DEF LaunchInsert, Return, At
<1>2. /\ inherited \in [Pids -> SUBSET Pids] /\ gRunningList \subseteq Pids
      /\ arg \in [Threads -> Pids \cup {NoPid}] /\ op \in [Threads -> Op]
  BY DEF TableInv, Inv, ShellInv, TypeOK, ShellTypeOK
<1>3. p \in Pids
  BY <1>1, <1>2 DEF TableInv, Inv, ShellInv, CallInv
<1>4. /\ Starting(p) /\ child[p] /= "new" /\ p \notin gRunningList
      /\ \A u \in Threads \ {t} : ~(op[u] = "launch" /\ arg[u] = p)
  BY <1>1, <1>3 DEF TableInv, EntryInv, Inv, HeldInv, Holds, Starting
<1>5. ASSUME NEW q \in Pids PROVE Starting(q)' <=> Starting(q) /\ q /= p
  <2>1. /\ arg'[t] = NoPid /\ op'[t] = "none"
        /\ \A u \in Threads \ {t} : arg'[u] = arg[u] /\ op'[u] = op[u]
    BY <1>1, <1>2
  <2> QED BY <1>1, <1>4, <2>1 DEF Starting
<1> HIDE DEF p
<1>6. EntryInv'
  BY <1>1, <1>2, <1>3, <1>4, <1>5 DEF TableInv, EntryInv
<1>7. Entry[p] = "starting" /\ Entry' = [Entry EXCEPT ![p] = "listed"]
  BY <1>1, <1>3, <1>4, <1>5 DEF Entry
<1>8. Due' = Due
  BY <1>1 DEF Due, handlerVars
<1> QED BY <1>1, <1>3, <1>6, <1>7, <1>8 DEF Table!List

\* A pid leaves the list.
LEMMA EntryGone ==
    ASSUME TableInv, NEW p \in Pids, gRunningList' = gRunningList \ {p},
           UNCHANGED inherited,
           \A q \in Pids : child'[q] = "new" <=> child[q] = "new",
           \A q \in Pids : Starting(q)' <=> Starting(q)
    PROVE  /\ EntryInv'
           /\ p \in gRunningList => Entry[p] = "listed" /\ Entry' = [Entry EXCEPT ![p] = "gone"]
           /\ p \notin gRunningList => Entry' = Entry
<1>1. gRunningList \subseteq Pids /\ inherited \in [Pids -> SUBSET Pids]
  BY DEF TableInv, Inv, ShellInv, TypeOK, ShellTypeOK
<1>2. EntryInv'
  BY <1>1 DEF TableInv, EntryInv
<1>3. ASSUME p \in gRunningList PROVE Entry[p] = "listed" /\ Entry' = [Entry EXCEPT ![p] = "gone"]
  <2>1. child[p] /= "new" /\ ~Starting(p)
    BY <1>3 DEF TableInv, EntryInv
  <2> QED BY <1>3, <2>1 DEF Entry
<1>4. ASSUME p \notin gRunningList PROVE Entry' = Entry
  BY <1>4 DEF Entry
<1> QED BY <1>2, <1>3, <1>4

\* cleanZombie takes from the list only what has been reaped.
LEMMA EraseRemoves ==
    ASSUME TableInv, NEW t \in Threads, CleanErase(t)
    PROVE  EntryInv' /\ (UNCHANGED Table!vars \/ \E p \in Pids : Table!Remove(p))
<1> USE ShellAssumption
<1>1. UNCHANGED <<op, arg, child, inherited, handlerVars, called>>
  BY DEF CleanErase, kernelVars
<1>2. Due' = Due /\ \A q \in Pids : Starting(q)' <=> Starting(q)
  BY <1>1 DEF Due, Starting, handlerVars
<1>3. CASE UNCHANGED gRunningList
  <2>1. TableSame
    BY <1>1, <1>2, <1>3 DEF TableSame, handlerVars
  <2> QED BY <2>1, SameKeeps
<1>4. ASSUME gZombieCount \in 1 .. MaxZombies,
             gRunningList' = gRunningList \ {gZombieList[gZombieCount]}
      PROVE  EntryInv' /\ (UNCHANGED Table!vars \/ \E p \in Pids : Table!Remove(p))
  <2> DEFINE p == gZombieList[gZombieCount]
  <2>1. p \in Pids \cup {NoPid} /\ gRunningList \subseteq Pids
    BY <1>4 DEF TableInv, Inv, ShellInv, TypeOK, ShellTypeOK
  <2>2. p \in Pids => child[p] = "reaped"
    BY <1>4 DEF TableInv, Inv, ShellInv, ZombieInv
  <2>3. CASE p \notin Pids
    <3>1. UNCHANGED gRunningList
      BY <1>4, <2>1, <2>3
    <3> QED BY <1>3, <3>1
  <2>4. CASE p \in Pids
    <3>1. gRunningList' = gRunningList \ {p}
      BY <1>4
    <3> HIDE DEF p
    <3>2. /\ EntryInv'
          /\ p \in gRunningList => Entry[p] = "listed" /\ Entry' = [Entry EXCEPT ![p] = "gone"]
          /\ p \notin gRunningList => Entry' = Entry
      BY <1>1, <1>2, <2>4, <3>1, EntryGone
    <3>3. CASE p \in gRunningList
      BY <1>1, <1>2, <2>2, <2>4, <3>2, <3>3 DEF Table!Remove
    <3>4. CASE p \notin gRunningList
      BY <1>1, <1>2, <3>2, <3>4 DEF Table!vars
    <3> QED BY <3>2, <3>3, <3>4
  <2> QED BY <2>3, <2>4
<1> QED BY <1>3, <1>4 DEF CleanErase

LEMMA TerminateTakes ==
    ASSUME TableInv, NEW t \in Threads, Terminate(t)
    PROVE  EntryInv' /\ (UNCHANGED Table!vars \/ \E p \in Pids : Table!Terminate(p))
<1> USE ShellAssumption
<1> DEFINE p == arg[t]
<1>1. /\ op[t] = "terminate" /\ gRunningList' = gRunningList \ {p}
      /\ op' = [op EXCEPT ![t] = "none"] /\ arg' = [arg EXCEPT ![t] = NoPid]
      /\ child' = [q \in Pids |-> IF q \in gRunningList \cap {p} /\ child[q] = "alive"
                                    THEN "killed" ELSE child[q]]
      /\ UNCHANGED <<inherited, handlerVars, called>>
  BY DEF Terminate, Return, Kill
<1>2. /\ gRunningList \subseteq Pids /\ child \in [Pids -> ChildState]
      /\ arg \in [Threads -> Pids \cup {NoPid}] /\ op \in [Threads -> Op]
  BY DEF TableInv, Inv, ShellInv, TypeOK, ShellTypeOK
<1>3. ASSUME NEW q \in Pids PROVE Starting(q)' <=> Starting(q)
  <2>1. /\ op'[t] = "none"
        /\ \A u \in Threads \ {t} : arg'[u] = arg[u] /\ op'[u] = op[u]
    BY <1>1, <1>2
  <2> QED BY <1>1, <2>1 DEF Starting
<1>4. Due' = Due
  BY <1>1 DEF Due, handlerVars
<1> HIDE DEF p
<1>5. CASE p \in gRunningList
  <2>1. p \in Pids /\ gRunningList \cap {p} = {p}
    BY <1>2, <1>5
  <2>2. \A q \in Pids : child'[q] = "new" <=> child[q] = "new"
    BY <1>1, <1>2
  <2>3. EntryInv' /\ Entry[p] = "listed" /\ Entry' = [Entry EXCEPT ![p] = "gone"]
    BY <1>1, <1>3, <1>5, <2>1, <2>2, EntryGone
  <2>4. child' = Table!Killed({p})
    BY <1>1, <2>1 DEF Table!Killed
  <2> QED BY <1>1, <1>4, <2>1, <2>3, <2>4 DEF Table!Terminate
<1>6. CASE p \notin gRunningList
  <2>1. UNCHANGED <<gRunningList, child>>
    BY <1>1, <1>2, <1>6
  <2>2. TableSame
    BY <1>1, <1>3, <2>1 DEF TableSame, handlerVars
  <2> QED BY <2>2, SameKeeps
<1> QED BY <1>5, <1>6

\* What is killed, or dies, stands where it stood.
LEMMA EntryStays ==
    ASSUME TableInv, UNCHANGED gRunningList,
           UNCHANGED <<op, arg>> \/ \A q \in Pids : Starting(q)' <=> Starting(q),
           \A q \in Pids : child'[q] = "new" <=> child[q] = "new",
           \A q \in Pids : inherited'[q] \subseteq inherited[q]
    PROVE  EntryInv' /\ Entry' = Entry
<1>1. gRunningList \subseteq Pids /\ inherited \in [Pids -> SUBSET Pids]
  BY DEF TableInv, Inv, ShellInv, TypeOK, ShellTypeOK
<1>2. UNCHANGED gRunningList /\ \A q \in Pids : Starting(q)' <=> Starting(q)
  BY DEF Starting
<1>3. EntryInv'
  BY <1>1, <1>2 DEF TableInv, EntryInv
<1> QED BY <1>2, <1>3 DEF Entry

LEMMA TerminateAllKills ==
    ASSUME TableInv, NEW t \in Threads, TerminateAll(t)
    PROVE  EntryInv' /\ Table!TerminateAll
<1> USE ShellAssumption
<1>1. /\ op[t] = "terminateAll" /\ UNCHANGED gRunningList
      /\ op' = [op EXCEPT ![t] = "none"] /\ arg' = [arg EXCEPT ![t] = NoPid]
      /\ child' = [q \in Pids |-> IF q \in gRunningList /\ child[q] = "alive"
                                    THEN "killed" ELSE child[q]]
      /\ UNCHANGED <<inherited, handlerVars, called>>
  BY DEF TerminateAll, Return, Kill
<1>2. /\ gRunningList \subseteq Pids /\ child \in [Pids -> ChildState]
      /\ arg \in [Threads -> Pids \cup {NoPid}] /\ op \in [Threads -> Op]
  BY DEF TableInv, Inv, ShellInv, TypeOK, ShellTypeOK
<1>3. ASSUME NEW q \in Pids PROVE Starting(q)' <=> Starting(q)
  <2>1. /\ op'[t] = "none"
        /\ \A u \in Threads \ {t} : arg'[u] = arg[u] /\ op'[u] = op[u]
    BY <1>1, <1>2
  <2> QED BY <1>1, <2>1 DEF Starting
<1>4. EntryInv' /\ Entry' = Entry
  <2>1. \A q \in Pids : child'[q] = "new" <=> child[q] = "new"
    BY <1>1, <1>2
  <2> QED BY <1>1, <1>3, <2>1, EntryStays
<1>5. \A q \in Pids : q \in gRunningList <=> q \in {r \in Pids : Entry[r] = "listed"}
  BY DEF Entry
<1>6. child' = Table!Killed({r \in Pids : Entry[r] = "listed"})
  BY <1>1, <1>5 DEF Table!Killed
<1>7. Due' = Due
  BY <1>1 DEF Due, handlerVars
<1> QED BY <1>1, <1>4, <1>6, <1>7 DEF Table!TerminateAll

-----------------------------------------------------------------------------
LEMMA DeathDies ==
    ASSUME TableInv, NEW p \in Pids, Die(p)
    PROVE  EntryInv' /\ Table!Die(p)
<1>1. /\ child[p] \in {"alive", "killed"} /\ child' = [child EXCEPT ![p] = "dead"]
      /\ inherited' = [inherited EXCEPT ![p] = {}]
      /\ UNCHANGED <<gRunningList, op, arg, handlerVars, called>>
  BY DEF Die, listVars, threadVars
<1>2. /\ child \in [Pids -> ChildState] /\ inherited \in [Pids -> SUBSET Pids]
  BY DEF TableInv, Inv, ShellInv, TypeOK, ShellTypeOK
<1>3. EntryInv' /\ Entry' = Entry
  <2>1. \A q \in Pids : (child'[q] = "new" <=> child[q] = "new") /\ inherited'[q] \subseteq inherited[q]
    BY <1>1, <1>2
  <2> QED BY <1>1, <2>1, EntryStays
<1>4. Due' = Due
  BY <1>1 DEF Due, handlerVars
<1> QED BY <1>1, <1>3, <1>4 DEF Table!Die

\* A failed exec kills what its copy of the program had listed, which has been entered.
LEMMA ExecDies ==
    ASSUME TableInv, NEW p \in Pids, ExecFails(p)
    PROVE  EntryInv' /\ \E ps \in SUBSET Pids : Table!DieWith(p, ps)
<1> DEFINE ps == inherited[p]
<1>1. /\ child[p] = "alive"
      /\ child' = [q \in Pids |-> IF q = p THEN "dead"
                                  ELSE IF q \in ps /\ child[q] = "alive" THEN "killed"
                                  ELSE child[q]]
      /\ inherited' = [inherited EXCEPT ![p] = {}]
      /\ UNCHANGED <<gRunningList, op, arg, handlerVars, called>>
  BY DEF ExecFails, listVars, threadVars
<1>2. /\ child \in [Pids -> ChildState] /\ inherited \in [Pids -> SUBSET Pids]
      /\ ps \in SUBSET Pids
  BY DEF TableInv, Inv, ShellInv, TypeOK, ShellTypeOK
<1>3. ASSUME NEW q \in ps PROVE Entry[q] \in {"listed", "gone"}
  <2>1. child[q] /= "new" /\ ~Starting(q)
    BY <1>3 DEF TableInv, EntryInv
  <2> QED BY <1>2, <1>3, <2>1 DEF Entry
<1> HIDE DEF ps
<1>4. EntryInv' /\ Entry' = Entry
  <2>1. \A q \in Pids : (child'[q] = "new" <=> child[q] = "new") /\ inherited'[q] \subseteq inherited[q]
    BY <1>1, <1>2
  <2> QED BY <1>1, <2>1, EntryStays
<1>5. child' = [Table!Killed(ps) EXCEPT ![p] = "dead"]
  BY <1>1 DEF Table!Killed
<1>6. Due' = Due
  BY <1>1 DEF Due, handlerVars
<1>7. Table!DieWith(p, ps)
  BY <1>1, <1>3, <1>4, <1>5, <1>6 DEF Table!DieWith
<1> QED BY <1>2, <1>4, <1>7

-----------------------------------------------------------------------------
LEMMA ReapReaps ==
    ASSUME TableInv, NEW t \in Threads, Reap(t)
    PROVE  HandlerInv' /\ EntryInv' /\ \E p \in Pids : Table!Reap(p)
<1> USE ShellAssumption
<1>1. PICK p \in Dead : /\ child' = [child EXCEPT ![p] = "reaped"]
                        /\ deadChildPid' = [deadChildPid EXCEPT ![t] = p]
  BY DEF Reap
<1>2. /\ p \in Pids /\ child[p] = "dead" /\ handler[t] = "top"
      /\ handler' = [handler EXCEPT ![t] = "lock"]
      /\ UNCHANGED <<gRunningList, op, arg, inherited, callback, called>>
  BY DEF Dead, Reap, HandlerAt, listVars, threadVars
<1>3. /\ child \in [Pids -> ChildState] /\ deadChildPid \in [Threads -> Pids \cup {NoPid}]
      /\ handler \in [Threads -> HandlerState] /\ called \subseteq Pids
      /\ inherited \in [Pids -> SUBSET Pids]
  BY DEF TableInv, Inv, ShellInv, TypeOK, ShellTypeOK
<1>4. /\ deadChildPid'[t] = p /\ handler'[t] = "lock" /\ ~callback[t]
      /\ \A u \in Threads \ {t} : deadChildPid'[u] = deadChildPid[u] /\ handler'[u] = handler[u]
  BY <1>1, <1>2, <1>3 DEF TableInv, HandlerInv
<1>5. /\ p \notin called /\ \A u \in Threads : deadChildPid[u] /= p
  BY <1>2 DEF TableInv, HandlerInv, Inv, ShellInv, ZombieInv
<1>6. HandlerInv'
  <2>1. ASSUME NEW u \in Threads
        PROVE  /\ deadChildPid'[u] \in Pids <=> handler'[u] \notin {"off", "top"}
               /\ callback[u] => handler'[u] \in {"append", "count", "call"}
               /\ deadChildPid'[u] \notin called
    BY <1>2, <1>4, <1>5 DEF TableInv, HandlerInv
  <2>2. ASSUME NEW u \in Threads, NEW v \in Threads,
               deadChildPid'[v] = deadChildPid'[u], deadChildPid'[u] \in Pids
        PROVE  v = u
    BY <1>4, <1>5, <2>2 DEF TableInv, HandlerInv
  <2>3. \A q \in called : child'[q] = "reaped"
    BY <1>1, <1>3 DEF TableInv, HandlerInv
  <2> QED BY <1>2, <2>1, <2>2, <2>3 DEF HandlerInv
<1>7. EntryInv' /\ Entry' = Entry
  <2>1. \A q \in Pids : child'[q] = "new" <=> child[q] = "new"
    BY <1>1, <1>2, <1>3
  <2> QED BY <1>2, <2>1, EntryStays
<1>8. Due' = Due
  BY <1>2, <1>4 DEF Due
<1>9. Table!Reap(p)
  BY <1>1, <1>2, <1>7, <1>8 DEF Table!Reap
<1> QED BY <1>2, <1>6, <1>7, <1>9

\* The handler looks for the callback of the process it has reaped.
LEMMA FindNotices ==
    ASSUME TableInv, NEW t \in Threads, HandlerFind(t)
    PROVE  HandlerInv' /\ EntryInv' /\ (UNCHANGED Table!vars \/ \E p \in Pids : Table!Notice(p))
<1> USE ShellAssumption
<1> DEFINE p == deadChildPid[t]
<1>1. /\ handler[t] = "lock"
      /\ \/ /\ callback' = [callback EXCEPT ![t] = p \in gRunningList]
            /\ handler' = [handler EXCEPT ![t] = "append"]
         \/ UNCHANGED <<callback, handler>>
      /\ UNCHANGED <<gRunningList, child, inherited, op, arg, deadChildPid, called>>
  BY DEF HandlerFind, HandlerAt, listVars, threadVars, kernelVars
<1>2. /\ callback \in [Threads -> BOOLEAN] /\ handler \in [Threads -> HandlerState]
      /\ called \subseteq Pids
  BY DEF TableInv, Inv, ShellInv, TypeOK, ShellTypeOK
<1>3. p \in Pids /\ child[p] = "reaped" /\ ~callback[t] /\ p \notin called
  BY <1>1 DEF TableInv, HandlerInv, Inv, ShellInv, ZombieInv
<1>4. \A u \in Threads : deadChildPid[u] = p => u = t
  BY <1>3 DEF TableInv, HandlerInv
<1> HIDE DEF p
<1>5. CASE UNCHANGED <<callback, handler>>
  <2>1. TableSame
    BY <1>1, <1>5 DEF TableSame, Starting
  <2> QED BY <2>1, SameKeeps
<1>6. CASE callback' = [callback EXCEPT ![t] = p \in gRunningList]
           /\ handler' = [handler EXCEPT ![t] = "append"]
  <2>1. /\ callback'[t] <=> p \in gRunningList
        /\ handler'[t] = "append"
        /\ \A u \in Threads \ {t} : callback'[u] = callback[u] /\ handler'[u] = handler[u]
    BY <1>2, <1>6
  <2>2. HandlerInv'
    BY <1>1, <2>1 DEF TableInv, HandlerInv
  <2>3. EntryInv' /\ Entry' = Entry
    BY <1>1, EntryStays
  <2>4. CASE p \in gRunningList
    <3>1. Entry[p] = "listed"
      BY <1>3, <2>4 DEF Entry
    <3>2. p \notin Due /\ Due' = Due \cup {p}
      BY <1>1, <1>3, <1>4, <2>1, <2>4 DEF Due, p
    <3> QED BY <1>1, <1>3, <2>2, <2>3, <3>1, <3>2 DEF Table!Notice
  <2>5. CASE p \notin gRunningList
    <3>1. Due' = Due
      BY <1>1, <1>3, <2>1, <2>5 DEF Due
    <3> QED BY <1>1, <2>2, <2>3, <3>1 DEF Table!vars
  <2> QED BY <2>4, <2>5
<1> QED BY <1>1, <1>5, <1>6

LEMMA CallReports ==
    ASSUME TableInv, NEW t \in Threads, HandlerCall(t)
    PROVE  HandlerInv' /\ EntryInv' /\ (UNCHANGED Table!vars \/ \E p \in Pids : Table!Report(p))
<1> USE ShellAssumption
<1> DEFINE p == deadChildPid[t]
<1>1. /\ handler[t] = "call"
      /\ called' = IF callback[t] THEN called \cup {p} ELSE called
      /\ callback' = [callback EXCEPT ![t] = FALSE]
      /\ deadChildPid' = [deadChildPid EXCEPT ![t] = NoPid]
      /\ handler' = [handler EXCEPT ![t] = "top"]
      /\ UNCHANGED <<gRunningList, child, inherited, op, arg>>
  BY DEF HandlerCall, HandlerAt, listVars, threadVars, kernelVars
<1>2. /\ callback \in [Threads -> BOOLEAN] /\ handler \in [Threads -> HandlerState]
      /\ called \subseteq Pids /\ deadChildPid \in [Threads -> Pids \cup {NoPid}]
  BY DEF TableInv, Inv, ShellInv, TypeOK, ShellTypeOK
<1>3. p \in Pids /\ child[p] = "reaped" /\ p \notin called
  BY <1>1 DEF TableInv, HandlerInv, Inv, ShellInv, ZombieInv
<1>4. \A u \in Threads : deadChildPid[u] = p => u = t
  BY <1>3 DEF TableInv, HandlerInv
<1> HIDE DEF p
<1>5. /\ ~callback'[t] /\ deadChildPid'[t] = NoPid /\ handler'[t] = "top"
      /\ \A u \in Threads \ {t} : /\ callback'[u] = callback[u] /\ handler'[u] = handler[u]
                                  /\ deadChildPid'[u] = deadChildPid[u]
  BY <1>1, <1>2
<1>6. called' \subseteq called \cup {p}
  BY <1>1
<1>7. HandlerInv'
  <2>1. ASSUME NEW u \in Threads
        PROVE  /\ deadChildPid'[u] \in Pids <=> handler'[u] \notin {"off", "top"}
               /\ callback'[u] => handler'[u] \in {"append", "count", "call"}
               /\ deadChildPid'[u] \notin called'
    <3>1. CASE u = t
      BY <1>2, <1>3, <1>5, <1>6, <3>1
    <3>2. CASE u /= t
      BY <1>4, <1>5, <1>6, <3>2 DEF TableInv, HandlerInv
    <3> QED BY <3>1, <3>2
  <2>2. ASSUME NEW u \in Threads, NEW v \in Threads,
               deadChildPid'[v] = deadChildPid'[u], deadChildPid'[u] \in Pids
        PROVE  v = u
    <3>1. u /= t /\ v /= t
      BY <1>5, <2>2, ShellAssumption
    <3>2. deadChildPid[v] = deadChildPid[u] /\ deadChildPid[u] \in Pids
      BY <1>5, <2>2, <3>1
    <3> QED BY <3>2 DEF TableInv, HandlerInv
  <2>3. \A q \in called' : child'[q] = "reaped"
    BY <1>1, <1>3, <1>6 DEF TableInv, HandlerInv
  <2> QED BY <2>1, <2>2, <2>3 DEF HandlerInv
<1>8. EntryInv' /\ Entry' = Entry
  BY <1>1, EntryStays
<1>9. CASE callback[t]
  <2>1. p \in Due /\ Due' = Due \ {p}
    BY <1>3, <1>4, <1>5, <1>9 DEF Due, p
  <2>2. Table!Report(p)
    BY <1>1, <1>8, <1>9, <2>1 DEF Table!Report
  <2> QED BY <1>3, <1>7, <1>8, <2>2
<1>10. CASE ~callback[t]
  <2>1. Due' = Due
    BY <1>5, <1>10 DEF Due
  <2> QED BY <1>1, <1>7, <1>8, <1>10, <2>1 DEF Table!vars
<1> QED BY <1>9, <1>10

\* The handler's other steps.
LEMMA HandlerSame ==
    ASSUME TableInv, NEW t \in Threads,
           Deliver(t) \/ HandlerReturn(t) \/ HandlerAppend(t) \/ HandlerCount(t)
    PROVE  HandlerInv' /\ EntryInv' /\ UNCHANGED Table!vars
<1> USE ShellAssumption
<1>1. /\ UNCHANGED <<gRunningList, child, inherited, op, arg, deadChildPid, callback, called>>
      /\ \/ UNCHANGED handler
         \/ handler[t] = "off" /\ handler' = [handler EXCEPT ![t] = "top"]
         \/ handler[t] = "top" /\ handler' = [handler EXCEPT ![t] = "off"]
         \/ handler[t] = "append" /\ handler' = [handler EXCEPT ![t] = "count"]
         \/ handler[t] = "count" /\ handler' = [handler EXCEPT ![t] = "call"]
  BY DEF Deliver, HandlerReturn, HandlerAppend, HandlerCount, HandlerAt, listVars, threadVars,
         kernelVars
<1>2. handler \in [Threads -> HandlerState]
  BY DEF TableInv, Inv, ShellInv, TypeOK, ShellTypeOK
<1>3. HandlerInv'
  <2>1. ASSUME NEW u \in Threads
        PROVE  /\ handler'[u] \in {"off", "top"} <=> handler[u] \in {"off", "top"}
               /\ handler[u] \in {"append", "count", "call"} => handler'[u] \in {"append", "count", "call"}
    BY <1>1, <1>2
  <2> QED BY <1>1, <2>1 DEF TableInv, HandlerInv
<1>4. EntryInv' /\ Entry' = Entry
  BY <1>1, EntryStays
<1>5. Due' = Due
  BY <1>1 DEF Due
<1> QED BY <1>1, <1>3, <1>4, <1>5 DEF Table!vars

-----------------------------------------------------------------------------
LEMMA FunctionTable ==
    ASSUME TableInv, NEW t \in Threads, FunctionStep(t)
    PROVE  HandlerInv' /\ EntryInv' /\ [Table!Next]_Table!vars
<1>1. HandlerInv'
  <2>1. UNCHANGED <<handlerVars, called>>
    BY DEF FunctionStep, Lock, CleanTest, CleanErase, CleanDecrement, Fork, ForkFails,
           LaunchInsert, Terminate, TerminateAll, IsRunning, Return
  <2>2. \A p \in Pids : child[p] = "reaped" => child'[p] = "reaped"
    BY ReapedStays DEF TableInv, Inv
  <2> QED BY <2>1, <2>2, HandlersStay
<1>2. CASE Lock(t) \/ CleanTest(t) \/ CleanDecrement(t) \/ ForkFails(t) \/ IsRunning(t)
  BY <1>2, FunctionSame, SameKeeps
<1>3. CASE CleanErase(t)
  BY <1>1, <1>3, EraseRemoves DEF Table!Next
<1>4. ASSUME NEW p \in Pids, Fork(t, p) PROVE EntryInv' /\ Table!Next
  BY <1>4, ForkStarts DEF Table!Next
<1>5. CASE LaunchInsert(t)
  BY <1>1, <1>5, InsertLists DEF Table!Next
<1>6. CASE Terminate(t)
  BY <1>1, <1>6, TerminateTakes DEF Table!Next
<1>7. CASE TerminateAll(t)
  BY <1>1, <1>7, TerminateAllKills DEF Table!Next
<1> QED BY <1>1, <1>2, <1>3, <1>4, <1>5, <1>6, <1>7 DEF FunctionStep

LEMMA HandlerTable ==
    ASSUME TableInv, NEW t \in Threads, HandlerStep(t) \/ Deliver(t)
    PROVE  HandlerInv' /\ EntryInv' /\ [Table!Next]_Table!vars
<1>1. CASE Reap(t)
  BY <1>1, ReapReaps DEF Table!Next
<1>2. CASE HandlerFind(t)
  BY <1>2, FindNotices DEF Table!Next
<1>3. CASE HandlerCall(t)
  BY <1>3, CallReports DEF Table!Next
<1> QED BY <1>1, <1>2, <1>3, HandlerSame DEF HandlerStep

LEMMA ChildTable ==
    ASSUME TableInv, NEW p \in Pids, Die(p) \/ ExecFails(p)
    PROVE  HandlerInv' /\ EntryInv' /\ [Table!Next]_Table!vars
<1>1. HandlerInv'
  <2>1. UNCHANGED <<handlerVars, called>>
    BY DEF Die, ExecFails
  <2>2. \A q \in Pids : child[q] = "reaped" => child'[q] = "reaped"
    BY DEF Die, ExecFails, TableInv, Inv, ShellInv, TypeOK, ShellTypeOK
  <2> QED BY <2>1, <2>2, HandlersStay
<1> QED BY <1>1, DeathDies, ExecDies DEF Table!Next

LEMMA EngineTable ==
    ASSUME TableInv, NEW e \in Engines,
           KillRunning(e, "killing") \/ KillRunning(e, "restarting") \/ StartFirst(e)
           \/ StartRefused(e) \/ EngineStep(e)
    PROVE  TableSame
<1>1. UserOf[e] \in Threads /\ iRunningPid[e] \in Pids \cup {NoPid}
  BY EnginesAssumption DEF TableInv, Inv, ShellInv, TypeOK
<1>2. /\ Enter(UserOf[e], "terminate", iRunningPid[e])
         \/ Enter(UserOf[e], "launch", NoPid)
         \/ LaunchRefused(UserOf[e])
         \/ UNCHANGED shellVars
  BY DEF KillRunning, StartFirst, StartRefused, EngineStep, Killed, Launched
<1>3. "terminate" \in Op \ {"none"} /\ "launch" \in Op \ {"none"}
  BY DEF Op
<1> QED BY <1>1, <1>2, <1>3, CallSame

LEMMA TableStep == TableInv /\ [Next]_vars => TableInv' /\ [Table!Next]_Table!vars
<1> SUFFICES ASSUME TableInv, [Next]_vars PROVE TableInv' /\ [Table!Next]_Table!vars
  OBVIOUS
<1>1. Inv'
  BY InvStep DEF TableInv
<1>2. ASSUME NEW t \in Threads, NEW f \in {"isRunning", "terminateAll"}, Ask(t, f)
      PROVE  TableSame
  <2>1. f \in Op \ {"none"} /\ f /= "launch" /\ Enter(t, f, NoPid)
    BY <1>2 DEF Op, Ask
  <2> QED BY <2>1, CallSame
<1>3. ASSUME NEW t \in Threads, FunctionStep(t) \/ Deliver(t) \/ HandlerStep(t)
      PROVE  HandlerInv' /\ EntryInv' /\ [Table!Next]_Table!vars
  BY <1>3, FunctionTable, HandlerTable
<1>4. ASSUME NEW e \in Engines,
             KillRunning(e, "killing") \/ KillRunning(e, "restarting") \/ StartFirst(e)
             \/ StartRefused(e) \/ EngineStep(e)
      PROVE  TableSame
  BY <1>4, EngineTable
<1>5. ASSUME NEW p \in Pids, Die(p) \/ ExecFails(p)
      PROVE  HandlerInv' /\ EntryInv' /\ [Table!Next]_Table!vars
  BY <1>5, ChildTable
<1>6. CASE UNCHANGED vars
  <2>1. TableSame
    BY <1>6 DEF vars, shellVars, listVars, threadVars, handlerVars, kernelVars, TableSame, Starting
  <2> QED BY <1>1, <2>1, SameKeeps DEF TableInv
<1>7. HandlerInv' /\ EntryInv' /\ [Table!Next]_Table!vars
  BY <1>2, <1>3, <1>4, <1>5, <1>6, SameKeeps DEF Next, TableInv
<1> QED BY <1>1, <1>7 DEF TableInv

\* The shell is a process table, for any number of threads, engines and processes,
\* whatever handlers and calls of cleanZombie do to each other and to gZombieCount: a
\* process is entered once, leaves only when it is terminated or reaped, is killed only
\* after it was entered, and has its callback called once, after it was reaped.
THEOREM ShellImplementsProcessTable == Spec => ImplementsProcessTable
<1>1. Init => TableInv /\ Table!Init
  BY InvInit, TableInit DEF TableInv
<1>2. TableInv /\ [Next]_vars => TableInv' /\ [Table!Next]_Table!vars
  BY TableStep
<1> QED
  BY <1>1, <1>2, PTL DEF Spec, ImplementsProcessTable, Table!Safety
=============================================================================
