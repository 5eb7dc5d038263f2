--------------------------------- MODULE LogDir ---------------------------------
(***************************************************************************)
(* The log directory of src/utl/Logger.cpp, shared by all processes of one *)
(* program.  When a process starts it removes the logs that are too old,   *)
(* opens its own, named by the second, and makes latest.txt point to it.   *)
(* Nothing keeps two processes from doing this at once, or one from        *)
(* removing what another still writes to.                                  *)
(***************************************************************************)
EXTENDS Integers

CONSTANTS Processes,
          LOG_FILE_KEEP,   \* LOG_FILE_KEEP_HOURS, in ticks
          MaxLogTime       \* bound

ASSUME LogAssumption == LOG_FILE_KEEP \in Nat /\ MaxLogTime \in Nat \ {0}

VARIABLES
    clock,
    dir,        \* the logs in the directory; a log's name is the time of its opening
    written,    \* when each was last written to
    starts,     \* the running processes whose first lines each of them holds
    latest,     \* what latest.txt points to, NoLog if there is none
    process,    \* of a process: pc, the entries it has yet to look at, the one it
                \* looks at, the time it compares with, and its iLogFp
    spoiled     \* history: processes whose log has been silent for too long, or has
                \* been opened by another

logVars == <<clock, dir, written, starts, latest, process, spoiled>>

Times == 1 .. MaxLogTime

\* The entry latest.txt.
Latest == 0

NoLog == -1

Absent == [pc |-> "off", entries |-> {}, entry |-> NoLog, now |-> 0, iLogFp |-> NoLog]

LogInit ==
    /\ clock = 1
    /\ dir = {}
    /\ written = [n \in Times |-> 0]
    /\ starts = [n \in Times |-> {}]
    /\ latest = NoLog
    /\ process = [p \in Processes |-> Absent]
    /\ spoiled = {}

LogTick ==
    /\ clock < MaxLogTime
    /\ clock' = clock + 1
    /\ spoiled' = spoiled \cup {p \in Processes :
                      LET n == process[p].iLogFp
                      IN  n /= NoLog /\ clock' - written[n] > LOG_FILE_KEEP}
    /\ UNCHANGED <<dir, written, starts, latest, process>>

-----------------------------------------------------------------------------
(* removeOldLogs.  The entries are those at its start.  The status and the *)
(* time of an entry are asked for one after the other, and for latest.txt  *)
(* they are those of what it points to.                                    *)

ScanStart(p) ==
    /\ process[p].pc = "off"
    /\ process' = [process EXCEPT ![p] =
          [Absent EXCEPT !.pc = "scan", !.now = clock,
                         !.entries = dir \cup IF latest = NoLog THEN {} ELSE {Latest}]]
    /\ UNCHANGED <<clock, dir, written, starts, latest, spoiled>>

Target(n) == IF n = Latest THEN latest ELSE n

\* An entry that is gone is no regular file.
ScanStatus(p, n) ==
    /\ process[p].pc = "scan"
    /\ n \in process[p].entries
    /\ process' = [process EXCEPT ![p].entries = @ \ {n},
                                  ![p].entry = n,
                                  ![p].pc = IF Target(n) \in dir THEN "entry" ELSE "scan"]
    /\ UNCHANGED <<clock, dir, written, starts, latest, spoiled>>

\* Mutant of Outdated: logs are removed a little too early.
OutdatedEarly(p, n) == written[n] <= process[p].now - LOG_FILE_KEEP

Outdated(p, n) == written[n] < process[p].now - LOG_FILE_KEEP

\* last_write_time throws when the entry has gone since its status was taken: the
\* process runs without a log.
ScanTime(p) ==
    /\ process[p].pc = "entry"
    /\ LET n == Target(process[p].entry)
       IN  process' = [process EXCEPT ![p].pc =
               IF n \notin dir THEN "up"
               ELSE IF Outdated(p, n) THEN "remove" ELSE "scan"]
    /\ UNCHANGED <<clock, dir, written, starts, latest, spoiled>>

ScanRemove(p) ==
    /\ process[p].pc = "remove"
    /\ IF process[p].entry = Latest
         THEN latest' = NoLog /\ UNCHANGED dir
         ELSE dir' = dir \ {process[p].entry} /\ UNCHANGED latest
    /\ process' = [process EXCEPT ![p].pc = "scan"]
    /\ UNCHANGED <<clock, written, starts, spoiled>>

-----------------------------------------------------------------------------
(* The rest of the constructor of StaticData                               *)

\* fopen with "w": a log of the same second is emptied and shared.
Open(p) ==
    /\ process[p].pc = "scan"
    /\ process[p].entries = {}
    /\ dir' = dir \cup {clock}
    /\ written' = [written EXCEPT ![clock] = clock]
    /\ starts' = [starts EXCEPT ![clock] = {}]
    /\ process' = [process EXCEPT ![p].pc = "unlink", ![p].iLogFp = clock]
    /\ spoiled' = spoiled \cup {q \in Processes : process[q].iLogFp = clock}
    /\ UNCHANGED <<clock, latest>>

OpenFails(p) ==
    /\ process[p].pc = "scan"
    /\ process[p].entries = {}
    /\ process' = [process EXCEPT ![p].pc = "unlink"]
    /\ UNCHANGED <<clock, dir, written, starts, latest, spoiled>>

Unlink(p) ==
    /\ process[p].pc = "unlink"
    /\ latest' = NoLog
    /\ process' = [process EXCEPT ![p].pc = "symlink"]
    /\ UNCHANGED <<clock, dir, written, starts, spoiled>>

\* The name is made again, of the time it is now, and a link that is there stays.
Symlink(p) ==
    /\ process[p].pc = "symlink"
    /\ latest' = IF latest = NoLog THEN clock ELSE latest
    /\ process' = [process EXCEPT ![p].pc = "setlinebuf"]
    /\ UNCHANGED <<clock, dir, written, starts, spoiled>>

\* setlinebuf and the start string.  setlinebuf is given iLogFp before the test
\* whether it is NULL: then the process crashes.
StartLine(p) ==
    /\ process[p].pc = "setlinebuf"
    /\ LET n == process[p].iLogFp
       IN  IF n = NoLog
             THEN /\ process' = [process EXCEPT ![p] = Absent]
                  /\ UNCHANGED <<written, starts>>
             ELSE /\ process' = [process EXCEPT ![p].pc = "up"]
                  /\ written' = [written EXCEPT ![n] = clock]
                  /\ starts' = [starts EXCEPT ![n] = @ \cup {p}]
    /\ UNCHANGED <<clock, dir, latest, spoiled>>

-----------------------------------------------------------------------------
\* doLog, which writes to the file only when setUseDeLogger has switched that off.
Log(p) ==
    /\ process[p].pc = "up"
    /\ process[p].iLogFp /= NoLog
    /\ written' = [written EXCEPT ![process[p].iLogFp] = clock]
    /\ UNCHANGED <<clock, dir, starts, latest, process, spoiled>>

\* The destructor of StaticData.
Exit(p) ==
    /\ process[p].pc = "up"
    /\ process' = [process EXCEPT ![p] = Absent]
    /\ LET n == process[p].iLogFp
       IN  written' = IF n = NoLog THEN written ELSE [written EXCEPT ![n] = clock]
    /\ starts' = [n \in Times |-> starts[n] \ {p}]
    /\ spoiled' = spoiled \ {p}
    /\ UNCHANGED <<clock, dir, latest>>

\* The process is killed, wherever it stands.
Killed(p) ==
    /\ process[p].pc /= "off"
    /\ process' = [process EXCEPT ![p] = Absent]
    /\ starts' = [n \in Times |-> starts[n] \ {p}]
    /\ spoiled' = spoiled \ {p}
    /\ UNCHANGED <<clock, dir, written, latest>>

LogNext ==
    \/ LogTick
    \/ \E p \in Processes :
          \/ ScanStart(p)
          \/ \E n \in process[p].entries : ScanStatus(p, n)
          \/ ScanTime(p)
          \/ ScanRemove(p)
          \/ Open(p)
          \/ OpenFails(p)
          \/ Unlink(p)
          \/ Symlink(p)
          \/ StartLine(p)
          \/ Log(p)
          \/ Exit(p)
          \/ Killed(p)

LogSpec == LogInit /\ [][LogNext]_logVars

-----------------------------------------------------------------------------
\* The log of a running process is in the directory, from its first line on,
\* whatever other processes remove and open meanwhile: unless it has been silent
\* for longer than logs are kept, or another process started in the same second.
LogKept ==
    \A p \in Processes \ spoiled :
        LET n == process[p].iLogFp
        IN  process[p].pc = "up" /\ n /= NoLog => n \in dir /\ p \in starts[n]
=============================================================================
