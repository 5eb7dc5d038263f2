---------------------------- MODULE TranscoderEngine ----------------------------
(***************************************************************************)
(* src/mmf/TranscoderEngineFfmpeg.cpp and TranscoderEngineVlc.cpp on top   *)
(* of the shell: an engine has at most one transcoder process, which it    *)
(* kills before it starts another and when it is destroyed.  How the       *)
(* command line is put together is left out; strToArgv may reject it.      *)
(*                                                                         *)
(* Any thread may also ask the shell whether a process runs and terminate  *)
(* all of them.                                                            *)
(***************************************************************************)
EXTENDS Shell

CONSTANTS Engines,
          UserOf     \* the thread that uses each engine

ASSUME EnginesAssumption == UserOf \in [Engines -> Threads]

VARIABLES iRunningPid,   \* of each engine
          engine,        \* where its start or killRunningProcess stands
          owned          \* history: the processes each engine has launched

engineVars == <<iRunningPid, engine, owned>>

vars == <<shellVars, engineVars>>

EngineState == {"idle", "killing", "restarting", "launching"}

Init ==
    /\ ShellInit
    /\ iRunningPid = [e \in Engines |-> NoPid]
    /\ engine = [e \in Engines |-> "idle"]
    /\ owned = [e \in Engines |-> {}]

\* The thread is in no function of an engine or of the shell.
Free(t) == At(t, "idle") /\ \A e \in Engines : UserOf[e] = t => engine[e] = "idle"

EngineGoto(e, where) == engine' = [engine EXCEPT ![e] = where]

\* killRunningProcess, alone (the destructor) or from start.
KillRunning(e, next) ==
    /\ Free(UserOf[e])
    /\ iRunningPid[e] /= NoPid
    /\ Enter(UserOf[e], "terminate", iRunningPid[e])
    /\ EngineGoto(e, next)
    /\ UNCHANGED <<iRunningPid, owned>>

\* terminate has returned.
Killed(e) ==
    /\ engine[e] \in {"killing", "restarting"}
    /\ At(UserOf[e], "idle")
    /\ iRunningPid' = [iRunningPid EXCEPT ![e] = NoPid]
    /\ IF engine[e] = "restarting"
         THEN Enter(UserOf[e], "launch", NoPid) /\ EngineGoto(e, "launching")
         ELSE EngineGoto(e, "idle") /\ UNCHANGED shellVars
    /\ UNCHANGED owned

\* Mutant of StartFirst: the running process is left alone.
StartNoKill(e) ==
    /\ Free(UserOf[e])
    /\ Enter(UserOf[e], "launch", NoPid)
    /\ EngineGoto(e, "launching")
    /\ UNCHANGED <<iRunningPid, owned>>

\* start, when there is nothing to kill.
StartFirst(e) ==
    /\ Free(UserOf[e])
    /\ iRunningPid[e] = NoPid
    /\ Enter(UserOf[e], "launch", NoPid)
    /\ EngineGoto(e, "launching")
    /\ UNCHANGED <<iRunningPid, owned>>

\* start with a command that strToArgv rejects.
StartRefused(e) ==
    /\ Free(UserOf[e])
    /\ iRunningPid[e] = NoPid
    /\ LaunchRefused(UserOf[e])
    /\ EngineGoto(e, "launching")
    /\ UNCHANGED <<iRunningPid, owned>>

\* launch has returned; start returns whether there is a process.
Launched(e) ==
    /\ engine[e] = "launching"
    /\ At(UserOf[e], "idle")
    /\ LET pid == ret[UserOf[e]]
       IN  /\ iRunningPid' = [iRunningPid EXCEPT ![e] = pid]
           /\ owned' = [owned EXCEPT ![e] = @ \cup ({pid} \ {NoPid})]
    /\ EngineGoto(e, "idle")
    /\ UNCHANGED shellVars

\* The thread's other calls of the shell.
Ask(t, function) ==
    /\ Free(t)
    /\ Enter(t, function, NoPid)
    /\ UNCHANGED engineVars

EngineStep(e) == Killed(e) \/ Launched(e)

Next ==
    \/ \E t \in Threads :
          \/ \E f \in {"isRunning", "terminateAll"} : Ask(t, f)
          \/ (FunctionStep(t) \/ Deliver(t) \/ HandlerStep(t)) /\ UNCHANGED engineVars
    \/ \E e \in Engines :
          \/ KillRunning(e, "killing")
          \/ KillRunning(e, "restarting")
          \/ StartFirst(e)
          \/ StartRefused(e)
          \/ EngineStep(e)
    \/ \E p \in Pids : (Die(p) \/ ExecFails(p)) /\ UNCHANGED engineVars

Spec == Init /\ [][Next]_vars

\* Threads run, the handler on them as well, and gMutex does not pass over a
\* waiting thread for ever; the kernel delivers SIGCHLD and SIGKILL ends a
\* process.  Nobody has to start or to kill a transcoder.
Fairness ==
    /\ \A t \in Threads :
          /\ WF_vars(FunctionStep(t) /\ UNCHANGED engineVars)
          /\ WF_vars(HandlerStep(t) /\ UNCHANGED engineVars)
          /\ SF_vars(Lock(t) /\ UNCHANGED engineVars)
          /\ SF_vars(HandlerFind(t) /\ UNCHANGED engineVars)
    /\ \A e \in Engines : WF_vars(EngineStep(e))
    /\ WF_vars(\E t \in Threads : Deliver(t) /\ UNCHANGED engineVars)
    /\ \A p \in Pids : WF_vars(child[p] = "killed" /\ Die(p) /\ UNCHANGED engineVars)

FairSpec == Spec /\ Fairness

-----------------------------------------------------------------------------
\* The shell's state is well-formed, and an engine knows a pid or none: what launch
\* returned when it failed is not taken for a process.
TypeOK ==
    /\ ShellTypeOK
    /\ iRunningPid \in [Engines -> Pids \cup {NoPid}]
    /\ engine \in [Engines -> EngineState]
    /\ owned \in [Engines -> SUBSET Pids]

\* An engine never has two transcoders: of all it has launched at most the one
\* it knows is alive and not killed.
OneTranscoder ==
    \A e \in Engines : \A p \in owned[e] :
        child[p] = "alive" => p = iRunningPid[e]
=============================================================================
