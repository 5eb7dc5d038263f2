----------------------------- MODULE LibraryProofs -----------------------------
(***************************************************************************)
(* The theorems about three parts of the library that stand by themselves. *)
(* No port of a PortPool is given out twice, for every width of a short    *)
(* and every range.  No process removes the log of another that is still   *)
(* written to, for any number of processes and any time that logs are      *)
(* kept.  What is written as a command line or encoded as a URL is read    *)
(* back, for arguments and URLs of any number and length.                  *)
(***************************************************************************)
EXTENDS PortPool, LogDir, Text, SequenceTheorems, WellFoundedInduction, TLAPS

-----------------------------------------------------------------------------
(* PortPool                                                                *)

(* What the sets say of one another is inductive once it is known that     *)
(* nothing has been handed out or removed before the constructor is        *)
(* through: it adds ports without looking.                                 *)
PoolInv ==
    /\ PortsAccounted
    /\ call \in {"new", "none", "acquire"}
    /\ call = "new" => held \cup leaked \cup cleared \cup pendingPortList = {}

LEMMA PoolInvInit == PoolInit => PoolInv
  BY DEF PoolInit, PoolStart, PoolInv, PortsAccounted

LEMMA PoolInvStep == PoolInv /\ [PoolNext]_poolVars => PoolInv'
<1> SUFFICES ASSUME PoolInv, [PoolNext]_poolVars PROVE PoolInv'
  OBVIOUS
<1> USE DEF PoolInv, PortsAccounted
<1>1. CASE Construct BY <1>1 DEF Construct
<1>2. CASE Constructed BY <1>2 DEF Constructed
<1>3. CASE Acquire BY <1>3 DEF Acquire
<1>4. CASE AcquireFails BY <1>4 DEF AcquireFails
<1>5. CASE Clear BY <1>5 DEF Clear
<1>6. ASSUME NEW port \in Shorts, AcquirePending(port) PROVE PoolInv'
  BY <1>6 DEF AcquirePending, Pop
<1>7. ASSUME NEW port \in Shorts, AcquireBound(port) PROVE PoolInv'
  BY <1>7 DEF AcquireBound, Pop
<1>8. ASSUME NEW port \in Shorts, Release(port) PROVE PoolInv'
  BY <1>8 DEF Release
<1>9. ASSUME NEW port \in Shorts, Add(port) PROVE PoolInv'
  BY <1>9 DEF Add
<1>10. CASE UNCHANGED poolVars BY <1>10 DEF poolVars
<1> QED BY <1>1, <1>2, <1>3, <1>4, <1>5, <1>6, <1>7, <1>8, <1>9, <1>10 DEF PoolNext

\* Every port stays in one place, and acquire hands out none that somebody has.
THEOREM PortsAreAccounted == PoolSpec => []PortsAccounted
<1>1. PoolInv => PortsAccounted BY DEF PoolInv
<1> QED BY <1>1, PoolInvInit, PoolInvStep, PTL DEF PoolSpec

-----------------------------------------------------------------------------
(* LogDir                                                                  *)

Entries == Times \cup {Latest}

PCs == {"off", "scan", "entry", "remove", "unlink", "symlink", "setlinebuf", "up"}

ProcessType ==
    [pc : PCs, entries : SUBSET Entries, entry : Entries \cup {NoLog}, now : Nat,
     iLogFp : Times \cup {NoLog}]

LogTypeOK ==
    /\ clock \in Times
    /\ dir \subseteq Times
    /\ written \in [Times -> Nat]
    /\ starts \in [Times -> SUBSET Processes]
    /\ latest \in Times \cup {NoLog}
    /\ process \in [Processes -> ProcessType]
    /\ spoiled \subseteq Processes

\* A log was written to when it was opened, and nothing lies in the future.
InTime ==
    /\ \A n \in Times : written[n] <= clock
    /\ \A n \in dir : n <= written[n]
    /\ \A p \in Processes : process[p].now <= clock

\* A process that looks through the directory has no log of its own, nor has one
\* that has yet to look.
NoLogYet ==
    \A p \in Processes :
        /\ process[p].pc \in {"off", "scan", "entry", "remove"} => process[p].iLogFp = NoLog
        /\ process[p].pc \in {"entry", "remove"} => process[p].entry \in Entries

\* The log of a process that is not spoiled is there and fresh.
OwnLog ==
    \A p \in Processes \ spoiled :
        LET n == process[p].iLogFp
        IN  n /= NoLog =>
              /\ n \in dir
              /\ clock - written[n] <= LOG_FILE_KEEP
              /\ process[p].pc = "up" => p \in starts[n]

(* What is about to be removed, on a time read earlier, belongs to no      *)
(* process that counts, and no process that opens its log later gets its   *)
(* name.                                                                   *)
RemovesOld ==
    \A q \in Processes :
        process[q].pc = "remove" /\ process[q].entry /= Latest =>
            /\ process[q].entry < clock
            /\ \A p \in Processes : process[p].iLogFp = process[q].entry => p \in spoiled

LogInv == LogTypeOK /\ InTime /\ NoLogYet /\ OwnLog /\ RemovesOld

LEMMA LogInvInit == LogInit => LogInv
<1> SUFFICES ASSUME LogInit PROVE LogInv
  OBVIOUS
<1> USE LogAssumption DEF LogInit, Absent, NoLog, Latest, Times, Entries
<1>1. LogTypeOK
  BY DEF LogTypeOK, ProcessType, PCs
<1>2. InTime /\ NoLogYet /\ OwnLog /\ RemovesOld
  BY DEF InTime, NoLogYet, OwnLog, RemovesOld
<1> QED BY <1>1, <1>2 DEF LogInv

LEMMA TickKeeps == LogInv /\ LogTick => LogInv'
<1> SUFFICES ASSUME LogInv, LogTick PROVE LogInv'
  OBVIOUS
<1> USE LogAssumption DEF LogInv, LogTypeOK, ProcessType, LogTick, Times, NoLog
<1>1. LogTypeOK' OBVIOUS
<1>2. InTime' /\ NoLogYet' BY DEF InTime, NoLogYet
<1>3. OwnLog' BY DEF OwnLog
<1>4. RemovesOld'
  <2>1. spoiled \subseteq spoiled' /\ clock' = clock + 1 /\ UNCHANGED process
    OBVIOUS
  <2>2. clock \in Int /\ \A q \in Processes : process[q].entry \in Int
    BY DEF Entries, Latest
  <2>3. \A q \in Processes : process[q].entry < clock => process[q].entry < clock'
    <3> TAKE q \in Processes
    <3> QED BY <2>1, <2>2
  <2> QED BY <2>1, <2>3 DEF RemovesOld
<1> QED BY <1>1, <1>2, <1>3, <1>4

LEMMA EntryType ==
    ASSUME process \in [Processes -> ProcessType], NEW p \in Processes,
           NEW entries \in SUBSET Entries, NEW entry \in Entries \cup {NoLog}, NEW pc \in PCs,
           process' = [process EXCEPT ![p].entries = entries, ![p].entry = entry, ![p].pc = pc]
    PROVE  process' \in [Processes -> ProcessType]
<1> DEFINE r == [process[p] EXCEPT !.entries = entries, !.entry = entry, !.pc = pc]
<1>1. process[p] \in ProcessType
  OBVIOUS
<1>2. r \in ProcessType
  BY <1>1 DEF ProcessType
<1>3. process' = [process EXCEPT ![p] = r]
  OBVIOUS
<1> HIDE DEF r
<1> QED BY <1>2, <1>3

LEMMA PcType ==
    ASSUME process \in [Processes -> ProcessType], NEW p \in Processes, NEW pc \in PCs,
           process' = [process EXCEPT ![p].pc = pc]
    PROVE  process' \in [Processes -> ProcessType]
<1> DEFINE r == [process[p] EXCEPT !.pc = pc]
<1>1. process[p] \in ProcessType
  OBVIOUS
<1>2. r \in ProcessType
  BY <1>1 DEF ProcessType
<1>3. process' = [process EXCEPT ![p] = r]
  OBVIOUS
<1> HIDE DEF r
<1> QED BY <1>2, <1>3

LEMMA ScanStartKeeps ==
    ASSUME LogInv, NEW p \in Processes, ScanStart(p)
    PROVE  LogInv'
<1> USE LogAssumption DEF LogInv, LogTypeOK, ProcessType, PCs, ScanStart, Times, Entries, NoLog, Latest, Absent
<1>1. LogTypeOK'
  <2>1. process'[p] \in ProcessType
    <3>1. dir \cup (IF latest = NoLog THEN {} ELSE {Latest}) \in SUBSET Entries
      OBVIOUS
    <3>2. process'[p] = [pc |-> "scan", entries |-> dir \cup (IF latest = NoLog THEN {} ELSE {Latest}),
                         entry |-> NoLog, now |-> clock, iLogFp |-> NoLog]
      OBVIOUS
    <3>3. clock \in Nat
      OBVIOUS
    <3> QED BY <3>1, <3>2, <3>3
  <2>2. process' \in [Processes -> ProcessType]
    BY <2>1
  <2> QED BY <2>2
<1>2. InTime' BY DEF InTime
<1>3. NoLogYet' BY DEF NoLogYet
<1>4. OwnLog' BY DEF OwnLog, InTime, NoLogYet, RemovesOld
<1>5. RemovesOld' BY DEF RemovesOld, OwnLog, InTime, NoLogYet
<1> QED BY <1>1, <1>2, <1>3, <1>4, <1>5

LEMMA ScanStatusKeeps ==
    ASSUME LogInv, NEW p \in Processes, NEW n \in process[p].entries, ScanStatus(p, n)
    PROVE  LogInv'
<1> USE LogAssumption DEF LogInv, LogTypeOK, ProcessType, PCs, ScanStatus, Times, Entries, NoLog, Latest, Target
<1>1. LogTypeOK'
  <2>1. process[p].entries \ {n} \in SUBSET Entries /\ n \in Entries
    OBVIOUS
  <2>2. PICK pc \in {"entry", "scan"} :
           process' = [process EXCEPT ![p].entries = process[p].entries \ {n},
                                      ![p].entry = n, ![p].pc = pc]
    OBVIOUS
  <2>3. process \in [Processes -> ProcessType] /\ pc \in PCs
    OBVIOUS
  <2> HIDE DEF ProcessType, PCs, ScanStatus, Entries
  <2>4. process' \in [Processes -> ProcessType]
    BY <2>1, <2>2, <2>3, EntryType
  <2>5. UNCHANGED <<clock, dir, written, starts, latest, spoiled>>
    BY DEF ScanStatus
  <2> QED BY <2>4, <2>5
<1>2. InTime' BY DEF InTime
<1>3. NoLogYet' BY DEF NoLogYet
<1>4. OwnLog' BY DEF OwnLog, InTime, NoLogYet, RemovesOld
<1>5. RemovesOld' BY DEF RemovesOld, OwnLog, InTime, NoLogYet
<1> QED BY <1>1, <1>2, <1>3, <1>4, <1>5

LEMMA ScanTimeKeeps ==
    ASSUME LogInv, NEW p \in Processes, ScanTime(p)
    PROVE  LogInv'
<1> USE LogAssumption DEF LogInv, LogTypeOK, ProcessType, PCs, ScanTime, Times, Entries, NoLog, Latest
<1>1. LogTypeOK'
  <2>1. process'[p] \in ProcessType
    OBVIOUS
  <2>2. process' \in [Processes -> ProcessType]
    BY <2>1
  <2> QED BY <2>2
<1>2. InTime' BY DEF InTime
<1>3. NoLogYet' BY DEF NoLogYet
<1>4. OwnLog' BY DEF OwnLog, InTime, NoLogYet, RemovesOld
\* A log that is found outdated is not that of a process that counts.
<1>5. RemovesOld'
  <2>1. CASE process'[p].pc /= "remove"
    BY <2>1 DEF RemovesOld
  <2>2. CASE process'[p].pc = "remove" /\ process[p].entry = Latest
    BY <2>2 DEF RemovesOld
  <2>3. CASE process'[p].pc = "remove" /\ process[p].entry /= Latest
    <3> DEFINE n == process[p].entry
    <3>1. n \in dir /\ written[n] < process[p].now - LOG_FILE_KEEP
      BY <2>3 DEF Target, Outdated
    <3>2. written[n] < clock - LOG_FILE_KEEP /\ n < clock
      BY <3>1 DEF InTime
    <3>3. \A q \in Processes : process[q].iLogFp = n => q \in spoiled
      BY <3>1, <3>2 DEF OwnLog
    <3> QED BY <2>3, <3>2, <3>3 DEF RemovesOld
  <2> QED BY <2>1, <2>2, <2>3
<1> QED BY <1>1, <1>2, <1>3, <1>4, <1>5

LEMMA ScanRemoveKeeps ==
    ASSUME LogInv, NEW p \in Processes, ScanRemove(p)
    PROVE  LogInv'
<1> USE LogAssumption DEF LogInv, LogTypeOK, ProcessType, PCs, ScanRemove, Times, Entries, NoLog, Latest
<1>1. LogTypeOK'
  <2>1. process' \in [Processes -> ProcessType]
    BY PcType
  <2>2. dir' \subseteq Times /\ latest' \in Times \cup {NoLog}
    OBVIOUS
  <2> QED BY <2>1, <2>2
<1>2. InTime' BY DEF InTime
<1>3. NoLogYet' BY DEF NoLogYet
<1>4. OwnLog' BY DEF OwnLog, InTime, NoLogYet, RemovesOld
<1>5. RemovesOld' BY DEF RemovesOld, OwnLog, InTime, NoLogYet
<1> QED BY <1>1, <1>2, <1>3, <1>4, <1>5

LEMMA OpenKeeps ==
    ASSUME LogInv, NEW p \in Processes, Open(p)
    PROVE  LogInv'
<1> USE LogAssumption DEF LogInv, LogTypeOK, ProcessType, PCs, Open, Times, Entries, NoLog, Latest
<1>1. LogTypeOK'
  <2>1. process'[p] \in ProcessType
    OBVIOUS
  <2>2. process' \in [Processes -> ProcessType]
    BY <2>1
  <2>3. /\ written' \in [Times -> Nat] /\ starts' \in [Times -> SUBSET Processes]
        /\ dir' \subseteq Times /\ spoiled' \subseteq Processes /\ UNCHANGED <<clock, latest>>
    OBVIOUS
  <2> HIDE DEF ProcessType, PCs, Open
  <2> QED BY <2>2, <2>3
<1>2. InTime' BY DEF InTime
<1>3. NoLogYet' BY DEF NoLogYet
<1>4. OwnLog' BY DEF OwnLog, InTime, NoLogYet, RemovesOld
<1>5. RemovesOld' BY DEF RemovesOld, OwnLog, InTime, NoLogYet
<1> QED BY <1>1, <1>2, <1>3, <1>4, <1>5

LEMMA OpenFailsKeeps ==
    ASSUME LogInv, NEW p \in Processes, OpenFails(p)
    PROVE  LogInv'
<1> USE LogAssumption DEF LogInv, LogTypeOK, ProcessType, PCs, OpenFails, Times, Entries, NoLog, Latest
<1>1. LogTypeOK'
  <2>1. process' \in [Processes -> ProcessType]
    BY PcType
  <2> QED BY <2>1
<1>2. InTime' BY DEF InTime
<1>3. NoLogYet' BY DEF NoLogYet
<1>4. OwnLog' BY DEF OwnLog, InTime, NoLogYet, RemovesOld
<1>5. RemovesOld' BY DEF RemovesOld, OwnLog, InTime, NoLogYet
<1> QED BY <1>1, <1>2, <1>3, <1>4, <1>5

LEMMA UnlinkKeeps ==
    ASSUME LogInv, NEW p \in Processes, Unlink(p)
    PROVE  LogInv'
<1> USE LogAssumption DEF LogInv, LogTypeOK, ProcessType, PCs, Unlink, Times, Entries, NoLog, Latest
<1>1. LogTypeOK'
  <2>1. process' \in [Processes -> ProcessType]
    BY PcType
  <2> QED BY <2>1
<1>2. InTime' BY DEF InTime
<1>3. NoLogYet' BY DEF NoLogYet
<1>4. OwnLog' BY DEF OwnLog, InTime, NoLogYet, RemovesOld
<1>5. RemovesOld' BY DEF RemovesOld, OwnLog, InTime, NoLogYet
<1> QED BY <1>1, <1>2, <1>3, <1>4, <1>5

LEMMA SymlinkKeeps ==
    ASSUME LogInv, NEW p \in Processes, Symlink(p)
    PROVE  LogInv'
<1> USE LogAssumption DEF LogInv, LogTypeOK, ProcessType, PCs, Symlink, Times, Entries, NoLog, Latest
<1>1. LogTypeOK'
  <2>1. process' \in [Processes -> ProcessType]
    BY PcType
  <2> QED BY <2>1
<1>2. InTime' BY DEF InTime
<1>3. NoLogYet' BY DEF NoLogYet
<1>4. OwnLog' BY DEF OwnLog, InTime, NoLogYet, RemovesOld
<1>5. RemovesOld' BY DEF RemovesOld, OwnLog, InTime, NoLogYet
<1> QED BY <1>1, <1>2, <1>3, <1>4, <1>5

LEMMA StartLineKeeps ==
    ASSUME LogInv, NEW p \in Processes, StartLine(p)
    PROVE  LogInv'
<1> USE LogAssumption DEF LogInv, LogTypeOK, ProcessType, PCs, Times, Entries, NoLog, Latest, Absent
<1> DEFINE n == process[p].iLogFp
\* The process crashes.
<1>1. CASE n = NoLog
  <2>1. /\ process[p].pc = "setlinebuf"
        /\ process' = [process EXCEPT ![p] = Absent]
        /\ UNCHANGED <<clock, dir, written, starts, latest, spoiled>>
    BY <1>1 DEF StartLine
  <2>2. LogTypeOK' BY <2>1
  <2>3. InTime' BY <2>1 DEF InTime
  <2>4. NoLogYet' BY <2>1 DEF NoLogYet
  <2>5. OwnLog' BY <2>1 DEF OwnLog
  <2>6. RemovesOld'
    <3>1. \A q \in Processes : q /= p => process'[q] = process[q]
      BY <2>1
    <3>2. process'[p] = Absent
      BY <2>1
    <3>3. ASSUME NEW q \in Processes
          PROVE  process'[q].iLogFp = process[q].iLogFp \/ process'[q].iLogFp = NoLog
      <4>1. CASE q = p BY <3>2, <4>1
      <4>2. CASE q /= p BY <3>1, <4>2
      <4> QED BY <4>1, <4>2
    <3>4. \A q \in Processes : process'[q].pc = "remove" => q /= p /\ process[q].entry \in Entries
      BY <3>1, <3>2 DEF NoLogYet
    <3> QED BY <2>1, <3>1, <3>3, <3>4 DEF RemovesOld
  <2> QED BY <2>2, <2>3, <2>4, <2>5, <2>6
<1>2. CASE n /= NoLog
  <2> DEFINE m == process[p].iLogFp
  <2>1. /\ process[p].pc = "setlinebuf"
        /\ process' = [process EXCEPT ![p].pc = "up"]
        /\ written' = [written EXCEPT ![m] = clock]
        /\ starts' = [starts EXCEPT ![m] = @ \cup {p}]
        /\ m \in Times
        /\ UNCHANGED <<clock, dir, latest, spoiled>>
    BY <1>2 DEF StartLine
  <2> HIDE DEF m
  <2>2. LogTypeOK'
    <3>1. process' \in [Processes -> ProcessType] BY <2>1, PcType
    <3>2. written' \in [Times -> Nat] BY <2>1
    <3>3. starts' \in [Times -> SUBSET Processes] BY <2>1
    <3> QED BY <2>1, <3>1, <3>2, <3>3
  <2>3. InTime' BY <2>1 DEF InTime
  <2>4. NoLogYet' BY <2>1 DEF NoLogYet
  <2>5. OwnLog' BY <2>1 DEF OwnLog, m
  <2>6. RemovesOld' BY <2>1 DEF RemovesOld
  <2> QED BY <2>2, <2>3, <2>4, <2>5, <2>6
<1> QED BY <1>1, <1>2

LEMMA LogKeeps ==
    ASSUME LogInv, NEW p \in Processes, Log(p)
    PROVE  LogInv'
<1> USE LogAssumption DEF LogInv, LogTypeOK, ProcessType, PCs, Log, Times, Entries, NoLog, Latest
<1>1. LogTypeOK' OBVIOUS
<1>2. InTime' BY DEF InTime
<1>3. NoLogYet' BY DEF NoLogYet
<1>4. OwnLog' BY DEF OwnLog, InTime, NoLogYet, RemovesOld
<1>5. RemovesOld' BY DEF RemovesOld, OwnLog, InTime, NoLogYet
<1> QED BY <1>1, <1>2, <1>3, <1>4, <1>5

LEMMA ExitKeeps ==
    ASSUME LogInv, NEW p \in Processes, Exit(p)
    PROVE  LogInv'
<1> USE LogAssumption DEF LogInv, LogTypeOK, ProcessType, PCs, Exit, Times, Entries, NoLog, Latest, Absent
<1>1. LogTypeOK' OBVIOUS
<1>2. InTime'
  <2>1. \A q \in Processes : process'[q].now <= clock
    BY DEF InTime
  <2>2. \A n \in Times : written'[n] <= clock /\ (n \in dir => n <= written'[n])
    BY DEF InTime
  <2> QED BY <2>1, <2>2 DEF InTime
<1>3. NoLogYet' BY DEF NoLogYet
<1>4. OwnLog' BY DEF OwnLog, InTime, NoLogYet, RemovesOld
<1>5. RemovesOld' BY DEF RemovesOld, OwnLog, InTime, NoLogYet
<1> QED BY <1>1, <1>2, <1>3, <1>4, <1>5

LEMMA KilledKeeps ==
    ASSUME LogInv, NEW p \in Processes, Killed(p)
    PROVE  LogInv'
<1> USE LogAssumption DEF LogInv, LogTypeOK, ProcessType, PCs, Killed, Times, Entries, NoLog, Latest, Absent
<1>1. LogTypeOK' OBVIOUS
<1>2. InTime'
  <2>1. \A q \in Processes : process'[q].now <= clock
    BY DEF InTime
  <2>2. \A n \in Times : written'[n] <= clock /\ (n \in dir => n <= written'[n])
    BY DEF InTime
  <2> QED BY <2>1, <2>2 DEF InTime
<1>3. NoLogYet' BY DEF NoLogYet
<1>4. OwnLog' BY DEF OwnLog, InTime, NoLogYet, RemovesOld
<1>5. RemovesOld' BY DEF RemovesOld, OwnLog, InTime, NoLogYet
<1> QED BY <1>1, <1>2, <1>3, <1>4, <1>5

LEMMA LogInvStep == LogInv /\ [LogNext]_logVars => LogInv'
<1>1. CASE UNCHANGED logVars
  BY <1>1 DEF logVars, LogInv, LogTypeOK, InTime, NoLogYet, OwnLog, RemovesOld
<1>2. CASE LogNext
  BY <1>2, TickKeeps, ScanStartKeeps, ScanStatusKeeps, ScanTimeKeeps, ScanRemoveKeeps,
     OpenKeeps, OpenFailsKeeps, UnlinkKeeps, SymlinkKeeps, StartLineKeeps, LogKeeps,
     ExitKeeps, KilledKeeps DEF LogNext
<1> QED BY <1>1, <1>2

\* The log of a running process that writes to it stays where it is.
THEOREM LogsAreKept == LogSpec => []LogKept
<1>1. LogInv => LogKept BY DEF LogInv, OwnLog, LogKept
<1> QED BY <1>1, LogInvInit, LogInvStep, PTL DEF LogSpec

-----------------------------------------------------------------------------
(* Text: what is shown by counting up                                      *)

\* What holds of 0 and goes on from each number to the next holds up to n.
LEMMA CountingUp ==
    ASSUME NEW n \in Nat, NEW S, 0 \in S, \A k \in 0 .. n - 1 : k \in S => k + 1 \in S
    PROVE  \A k \in 0 .. n : k \in S
<1> DEFINE R == OpToRel(<, Nat)  bad == {k \in 0 .. n : k \notin S}
<1>1. bad \in SUBSET Nat
  OBVIOUS
<1> SUFFICES ASSUME bad /= {} PROVE FALSE
  OBVIOUS
<1>2. PICK x \in bad : \A y \in bad : ~(<<y, x>> \in R)
  <2>1. IsWellFoundedOn(R, Nat) BY NatLessThanWellFounded
  <2> HIDE DEF R, bad
  <2> QED BY <1>1, <2>1, WFMin
<1>3. \A y \in bad : ~(y < x)
  <2>1. x \in Nat /\ \A y \in bad : y \in Nat
    OBVIOUS
  <2> HIDE DEF bad
  <2> QED BY <1>2, <2>1 DEF OpToRel
<1>4. x \in 1 .. n /\ x - 1 \in S
  <2>1. x \in 0 .. n /\ x \notin S /\ x /= 0
    OBVIOUS
  <2>2. x - 1 \in 0 .. n /\ x - 1 < x
    BY <2>1
  <2> QED BY <1>3, <2>1, <2>2
<1>5. x - 1 \in 0 .. n - 1 /\ (x - 1) + 1 = x
  BY <1>4
<1> QED BY <1>4, <1>5

-----------------------------------------------------------------------------
(* FlattenSeq puts the first sequence in front of the others.              *)

\* The function that FlattenSeq defines: what the first i sequences are together.
Joins(g, ss, m) == g = [i \in 1 .. m |-> IF i = 1 THEN ss[i] ELSE g[i - 1] \o ss[i]]

LEMMA JoinsExists ==
    ASSUME NEW ss, NEW n \in Nat
    PROVE  \E g : Joins(g, ss, n)
<1> DEFINE S == {m \in 0 .. n : \E g : Joins(g, ss, m)}
<1>1. 0 \in S
  <2> DEFINE g == [i \in 1 .. 0 |-> 0]
  <2>1. Joins(g, ss, 0)
    BY DEF Joins
  <2> QED BY <2>1
<1>2. ASSUME NEW m \in 0 .. n - 1, m \in S
      PROVE  m + 1 \in S
  <2>1. PICK g : Joins(g, ss, m)
    BY <1>2
  <2> DEFINE h == [i \in 1 .. m + 1 |-> IF i \in 1 .. m THEN g[i]
                                         ELSE IF i = 1 THEN ss[i] ELSE g[i - 1] \o ss[i]]
  <2>2. ASSUME NEW i \in 1 .. m + 1
        PROVE  h[i] = IF i = 1 THEN ss[i] ELSE h[i - 1] \o ss[i]
    <3>1. i /= 1 => i - 1 \in 1 .. m
      OBVIOUS
    <3>2. i /= 1 => h[i - 1] = g[i - 1]
      BY <3>1
    <3>3. CASE i \in 1 .. m
      <4>1. h[i] = g[i] /\ g[i] = IF i = 1 THEN ss[i] ELSE g[i - 1] \o ss[i]
        BY <2>1, <3>3 DEF Joins
      <4> QED BY <3>2, <4>1
    <3> QED BY <3>2, <3>3
  <2>3. h = [i \in 1 .. m + 1 |-> IF i = 1 THEN ss[i] ELSE h[i - 1] \o ss[i]]
    <3>1. \A i \in 1 .. m + 1 : h[i] = IF i = 1 THEN ss[i] ELSE h[i - 1] \o ss[i]
      BY <2>2
    <3>2. h = [i \in 1 .. m + 1 |-> h[i]]
      OBVIOUS
    <3> HIDE DEF h
    <3> QED BY <3>1, <3>2
  <2>4. m + 1 \in 0 .. n
    OBVIOUS
  <2>5. Joins(h, ss, m + 1)
    BY <2>3 DEF Joins
  <2> QED BY <2>4, <2>5
<1> HIDE DEF S
<1>3. \A m \in 0 .. n : m \in S
  BY <1>1, <1>2, CountingUp
<1> QED BY <1>3 DEF S

LEMMA FlattenIs ==
    ASSUME NEW ss, Len(ss) \in Nat
    PROVE  IF Len(ss) = 0 THEN FlattenSeq(ss) = ss
           ELSE \E g : Joins(g, ss, Len(ss)) /\ FlattenSeq(ss) = g[Len(ss)]
<1>1. CASE Len(ss) = 0
  BY <1>1 DEF FlattenSeq
<1>2. CASE Len(ss) /= 0
  <2> DEFINE flatten == CHOOSE g : Joins(g, ss, Len(ss))
  <2>1. Joins(flatten, ss, Len(ss))
    BY JoinsExists
  <2>2. FlattenSeq(ss) = flatten[Len(ss)]
    BY <1>2 DEF FlattenSeq, Joins
  <2> QED BY <1>2, <2>1, <2>2
<1> QED BY <1>1, <1>2

Associates(a, b, c) == (a \o b) \o c = a \o (b \o c)

LEMMA ConcatAssociates ==
    ASSUME NEW A, NEW a \in Seq(A), NEW b \in Seq(A), NEW c \in Seq(A)
    PROVE  Associates(a, b, c)
  BY ConcatAssociative DEF Associates

LEMMA FlattenFirst ==
    ASSUME NEW A, NEW ss \in Seq(Seq(A)), ss /= <<>>
    PROVE  /\ FlattenSeq(Tail(ss)) \in Seq(A)
           /\ FlattenSeq(ss) \in Seq(A)
           /\ FlattenSeq(ss) = ss[1] \o FlattenSeq(Tail(ss))
<1> DEFINE rest == Tail(ss)  n == Len(ss)
<1>1. /\ n \in Nat \ {0} /\ rest \in Seq(Seq(A)) /\ Len(rest) = n - 1
      /\ \A i \in 1 .. n : ss[i] \in Seq(A)
      /\ \A i \in 1 .. n - 1 : rest[i] = ss[i + 1]
  BY EmptySeq, HeadTailProperties, ElementOfSeq
<1> HIDE DEF rest, n
<1>2. PICK g : Joins(g, ss, n) /\ FlattenSeq(ss) = g[n]
  BY <1>1, FlattenIs DEF n
<1>3. CASE n = 1
  <2>1. rest = <<>>
    BY <1>1, <1>3, EmptySeq
  <2>2. FlattenSeq(rest) = <<>>
    BY <2>1 DEF FlattenSeq
  <2>3. FlattenSeq(ss) = ss[1]
    BY <1>2, <1>3 DEF Joins
  <2>4. ss[1] \in Seq(A) /\ <<>> \in Seq(A)
    BY <1>1, <1>3, EmptySeq
  <2>5. ss[1] \o <<>> = ss[1]
    BY <2>4, ConcatEmptySeq
  <2> QED BY <2>2, <2>3, <2>4, <2>5 DEF rest
<1>4. CASE n /= 1
  <2>1. PICK h : Joins(h, rest, n - 1) /\ FlattenSeq(rest) = h[n - 1]
    <3>1. Len(rest) \in Nat /\ Len(rest) /= 0
      BY <1>1, <1>4
    <3> QED BY <1>1, <3>1, FlattenIs
  <2> DEFINE S == {k \in 0 .. n - 2 : h[k + 1] \in Seq(A) /\ g[k + 2] = ss[1] \o h[k + 1]}
  <2>2. n - 2 \in Nat
    BY <1>1, <1>4
  <2>3. \A i \in 1 .. n : g[i] = IF i = 1 THEN ss[i] ELSE g[i - 1] \o ss[i]
    BY <1>2 DEF Joins
  <2>4. \A i \in 1 .. n - 1 : h[i] = IF i = 1 THEN rest[i] ELSE h[i - 1] \o rest[i]
    BY <2>1 DEF Joins
  <2>5. 0 \in S
    <3>1. g[1] = ss[1] /\ g[2] = g[1] \o ss[2] /\ h[1] = rest[1] /\ rest[1] = ss[2]
      <4>1. 1 \in 1 .. n /\ 2 \in 1 .. n /\ 1 \in 1 .. n - 1 /\ 2 - 1 = 1 /\ 1 + 1 = 2
        BY <1>1, <2>2
      <4>2. g[2] = g[2 - 1] \o ss[2]
        BY <2>3, <4>1, 2 /= 1
      <4>3. rest[1] = ss[1 + 1]
        BY <1>1, <4>1
      <4> QED BY <2>3, <2>4, <4>1, <4>2, <4>3
    <3>2. ss[2] \in Seq(A)
      BY <1>1, <2>2
    <3>3. 0 \in 0 .. n - 2 /\ 0 + 1 = 1 /\ 0 + 2 = 2
      BY <2>2
    <3> QED BY <3>1, <3>2, <3>3
  <2>6. ASSUME NEW k \in 0 .. (n - 2) - 1, k \in S
        PROVE  k + 1 \in S
    <3>1. k + 2 \in 1 .. n - 1 /\ k + 3 \in 1 .. n /\ k + 1 \in 0 .. n - 2 /\ k \in Nat
      <4>1. k \in Nat /\ k <= (n - 2) - 1 /\ n \in Nat
        BY <1>1, <2>2
      <4> QED BY <4>1
    <3>2. /\ g[k + 3] = g[k + 2] \o ss[k + 3]
          /\ h[k + 2] = h[k + 1] \o rest[k + 2]
          /\ rest[k + 2] = ss[k + 3]
      <4>1. k + 3 /= 1 /\ k + 2 /= 1 /\ (k + 3) - 1 = k + 2 /\ (k + 2) - 1 = k + 1
            /\ (k + 2) + 1 = k + 3
        BY <3>1
      <4> QED BY <1>1, <2>3, <2>4, <3>1, <4>1
    <3>3. ss[1] \in Seq(A) /\ ss[k + 3] \in Seq(A) /\ h[k + 1] \in Seq(A)
          /\ g[k + 2] = ss[1] \o h[k + 1]
      <4>1. 1 \in 1 .. n /\ k + 3 \in 1 .. n
        BY <1>1, <3>1
      <4> QED BY <1>1, <2>6, <4>1
    <3>4. g[k + 3] = ss[1] \o h[k + 2]
      <4>1. (ss[1] \o h[k + 1]) \o ss[k + 3] = ss[1] \o (h[k + 1] \o ss[k + 3])
        <5>1. Associates(ss[1], h[k + 1], ss[k + 3])
          BY <3>3, ConcatAssociates
        <5> QED BY <5>1 DEF Associates
      <4> QED BY <3>2, <3>3, <4>1
    <3>5. h[k + 2] \in Seq(A)
      BY <3>2, <3>3, ConcatProperties
    <3>6. (k + 1) + 1 = k + 2 /\ (k + 1) + 2 = k + 3
      BY <3>1
    <3> QED BY <3>1, <3>4, <3>5, <3>6
  <2>7. n - 2 \in S
    <3> HIDE DEF S
    <3>1. \A k \in 0 .. n - 2 : k \in S
      BY <2>2, <2>5, <2>6, CountingUp
    <3> QED BY <2>2, <3>1
  <2>8. (n - 2) + 1 = n - 1 /\ (n - 2) + 2 = n
    BY <1>1
  <2>9. h[n - 1] \in Seq(A) /\ g[n] = ss[1] \o h[n - 1]
    BY <2>7, <2>8
  <2>10. ss[1] \in Seq(A)
    BY <1>1
  <2>11. ss[1] \o h[n - 1] \in Seq(A)
    BY <2>9, <2>10, ConcatProperties
  <2> QED BY <1>2, <2>1, <2>9, <2>11 DEF rest
<1> QED BY <1>3, <1>4

-----------------------------------------------------------------------------
(* What is written for each character of a text                            *)

Mapped(f, s) == [i \in DOMAIN s |-> f[s[i]]]

LEMMA MappedIs ==
    ASSUME NEW f \in [Chars -> Seq(Chars)], NEW s \in Seq(Chars)
    PROVE  /\ Mapped(f, s) \in Seq(Seq(Chars))
           /\ s = <<>> => Mapped(f, s) = <<>>
           /\ s /= <<>> => /\ Mapped(f, s) /= <<>>
                           /\ Mapped(f, s)[1] = f[s[1]]
                           /\ Tail(Mapped(f, s)) = Mapped(f, Tail(s))
<1>1. Mapped(f, s) \in Seq(Seq(Chars)) /\ Len(Mapped(f, s)) = Len(s)
  <2>1. DOMAIN s = 1 .. Len(s) /\ Len(s) \in Nat /\ \A i \in 1 .. Len(s) : f[s[i]] \in Seq(Chars)
    OBVIOUS
  <2> QED BY <2>1 DEF Mapped
<1>2. s = <<>> => Mapped(f, s) = <<>>
  BY DEF Mapped
<1>3. ASSUME s /= <<>>
      PROVE  /\ Mapped(f, s) /= <<>>
             /\ Mapped(f, s)[1] = f[s[1]]
             /\ Tail(Mapped(f, s)) = Mapped(f, Tail(s))
  <2> DEFINE n == Len(s)
  <2>1. n \in Nat \ {0} /\ Tail(s) \in Seq(Chars) /\ Len(Tail(s)) = n - 1
        /\ \A i \in 1 .. n - 1 : Tail(s)[i] = s[i + 1]
    BY <1>3, EmptySeq, HeadTailProperties
  <2>2. \A i \in 1 .. n : Mapped(f, s)[i] = f[s[i]]
    BY DEF Mapped
  <2>3. \A i \in 1 .. n - 1 : Mapped(f, Tail(s))[i] = f[Tail(s)[i]]
    BY <2>1 DEF Mapped
  <2>4. Mapped(f, Tail(s)) \in Seq(Seq(Chars)) /\ Len(Mapped(f, Tail(s))) = n - 1
    BY <2>1 DEF Mapped
  <2> HIDE DEF n
  <2>5. Mapped(f, s) /= <<>>
    BY <1>1, <2>1, EmptySeq DEF n
  <2>6. /\ Tail(Mapped(f, s)) \in Seq(Seq(Chars)) /\ Len(Tail(Mapped(f, s))) = n - 1
        /\ \A i \in 1 .. n - 1 : Tail(Mapped(f, s))[i] = Mapped(f, s)[i + 1]
    BY <1>1, <2>5, HeadTailProperties DEF n
  <2>7. \A i \in 1 .. n - 1 : Tail(Mapped(f, s))[i] = Mapped(f, Tail(s))[i]
    <3> SUFFICES ASSUME NEW i \in 1 .. n - 1
                 PROVE  Tail(Mapped(f, s))[i] = Mapped(f, Tail(s))[i]
      OBVIOUS
    <3>1. i + 1 \in 1 .. n
      BY <2>1
    <3> QED BY <2>1, <2>2, <2>3, <2>6, <3>1
  <2>8. Tail(Mapped(f, s)) = Mapped(f, Tail(s))
    BY <2>4, <2>6, <2>7, SeqEqual
  <2>9. 1 \in 1 .. n
    BY <2>1
  <2> QED BY <2>2, <2>5, <2>8, <2>9
<1> QED BY <1>1, <1>2, <1>3

LEMMA FlattenNothing == FlattenSeq(<<>>) = <<>>
  BY DEF FlattenSeq

LEMMA MappedFirst ==
    ASSUME NEW f \in [Chars -> Seq(Chars)], NEW s \in Seq(Chars)
    PROVE  /\ FlattenSeq(Mapped(f, s)) \in Seq(Chars)
           /\ s = <<>> => FlattenSeq(Mapped(f, s)) = <<>>
           /\ s /= <<>> => FlattenSeq(Mapped(f, s)) =
                             f[s[1]] \o FlattenSeq(Mapped(f, Tail(s)))
<1>1. CASE s = <<>>
  <2>1. FlattenSeq(Mapped(f, s)) = <<>>
    BY <1>1, MappedIs, FlattenNothing
  <2>2. <<>> \in Seq(Chars)
    OBVIOUS
  <2> QED BY <1>1, <2>1, <2>2
<1>2. CASE s /= <<>>
  <2> DEFINE ss == Mapped(f, s)
  <2>1. ss \in Seq(Seq(Chars)) /\ ss /= <<>> /\ ss[1] = f[s[1]] /\ Tail(ss) = Mapped(f, Tail(s))
    BY <1>2, MappedIs
  <2> HIDE DEF ss
  <2>2. FlattenSeq(ss) \in Seq(Chars) /\ FlattenSeq(ss) = ss[1] \o FlattenSeq(Tail(ss))
    BY <2>1, FlattenFirst
  <2> QED BY <1>2, <2>1, <2>2 DEF ss
<1> QED BY <1>1, <1>2

EscapedChar(c, these) == IF c \in these THEN <<Escape, c>> ELSE <<c>>

LEMMA EscapedIs ==
    ASSUME NEW arg \in Seq(Chars), NEW these
    PROVE  /\ Escaped(arg, these) \in Seq(Chars)
           /\ arg = <<>> => Escaped(arg, these) = <<>>
           /\ arg /= <<>> => Escaped(arg, these) =
                               EscapedChar(arg[1], these) \o Escaped(Tail(arg), these)
<1> DEFINE f == [c \in Chars |-> EscapedChar(c, these)]
<1>1. f \in [Chars -> Seq(Chars)]
  <2>1. \A c \in Chars : EscapedChar(c, these) \in Seq(Chars)
    <3>1. Escape \in Chars
      BY DEF Escape, Chars
    <3> QED BY <3>1 DEF EscapedChar
  <2> QED BY <2>1
<1>2. ASSUME NEW s \in Seq(Chars)
      PROVE  Escaped(s, these) = FlattenSeq(Mapped(f, s))
  <2>1. \A i \in DOMAIN s : s[i] \in Chars
    OBVIOUS
  <2>2. [i \in DOMAIN s |-> IF s[i] \in these THEN <<Escape, s[i]>> ELSE <<s[i]>>] = Mapped(f, s)
    BY <2>1 DEF Mapped, EscapedChar
  <2> QED BY <2>2 DEF Escaped
<1>3. arg /= <<>> => f[arg[1]] = EscapedChar(arg[1], these) /\ Tail(arg) \in Seq(Chars)
  OBVIOUS
<1> HIDE DEF f
<1> QED BY <1>1, <1>2, <1>3, MappedFirst

UrlPiece(c) == IF c \in Plain THEN <<c>> ELSE EncodedChar(c)

LEMMA UrlPieceIs == \A c \in Chars : UrlPiece(c) \in Seq(Chars)
<1>1. \A n \in 0 .. 15 : HexDigit(n) \in Chars
  BY DEF HexDigit, Chars
<1>2. \A c \in Chars : c \div 16 \in 0 .. 15 /\ c % 16 \in 0 .. 15
  BY DEF Chars
<1>3. [i \in 1 .. 6 |-> HexDigit(15)] \in Seq(Chars) /\ <<>> \in Seq(Chars)
      /\ <<Percent>> \in Seq(Chars)
  BY DEF HexDigit, Chars, Percent
<1>4. \A c \in Chars : <<HexDigit(c \div 16), HexDigit(c % 16)>> \in Seq(Chars)
  BY <1>1, <1>2
<1> QED BY <1>3, <1>4 DEF UrlPiece, EncodedChar

LEMMA EncodedIs ==
    ASSUME NEW s \in Seq(Chars)
    PROVE  /\ EncodeUri(s) \in Seq(Chars)
           /\ s = <<>> => EncodeUri(s) = <<>>
           /\ s /= <<>> => EncodeUri(s) = UrlPiece(s[1]) \o EncodeUri(Tail(s))
<1> DEFINE f == [c \in Chars |-> UrlPiece(c)]
<1>1. f \in [Chars -> Seq(Chars)]
  BY UrlPieceIs
<1>2. ASSUME NEW t \in Seq(Chars)
      PROVE  EncodeUri(t) = FlattenSeq(Mapped(f, t))
  <2>1. \A i \in DOMAIN t : t[i] \in Chars
    OBVIOUS
  <2>2. [i \in DOMAIN t |-> IF t[i] \in Plain THEN <<t[i]>> ELSE EncodedChar(t[i])] = Mapped(f, t)
    BY <2>1 DEF Mapped, UrlPiece
  <2> QED BY <2>2 DEF EncodeUri
<1>3. s /= <<>> => f[s[1]] = UrlPiece(s[1]) /\ Tail(s) \in Seq(Chars)
  OBVIOUS
<1> HIDE DEF f
<1> QED BY <1>1, <1>2, <1>3, MappedFirst

-----------------------------------------------------------------------------
(* Command lines, one argument after the other                             *)

Line(v) == FlattenSeq([k \in DOMAIN v |-> <<Blank>> \o v[k]])

LEMMA LineIs ==
    ASSUME NEW v \in Seq(Seq(Chars))
    PROVE  /\ Line(v) \in Seq(Chars)
           /\ v = <<>> => Line(v) = <<>>
           /\ v /= <<>> => Line(v) = <<Blank>> \o (v[1] \o Line(Tail(v)))
<1>1. Blank \in Chars /\ <<Blank>> \in Seq(Chars)
  BY DEF Blank, Chars
<1>2. CASE v = <<>>
  <2>1. Line(v) = <<>>
    BY <1>2, FlattenNothing DEF Line
  <2>2. <<>> \in Seq(Chars)
    OBVIOUS
  <2> QED BY <1>2, <2>1, <2>2
<1>3. CASE v /= <<>>
  <2> DEFINE ss == [k \in DOMAIN v |-> <<Blank>> \o v[k]]
             tt == [k \in DOMAIN Tail(v) |-> <<Blank>> \o Tail(v)[k]]
             n == Len(v)
  <2>1. /\ n \in Nat \ {0} /\ DOMAIN v = 1 .. n /\ Tail(v) \in Seq(Seq(Chars))
        /\ DOMAIN Tail(v) = 1 .. n - 1
        /\ \A k \in 1 .. n - 1 : Tail(v)[k] = v[k + 1]
        /\ \A k \in 1 .. n : v[k] \in Seq(Chars)
    BY <1>3, EmptySeq, HeadTailProperties, LenProperties, ElementOfSeq
  <2>2. \A k \in 1 .. n : <<Blank>> \o v[k] \in Seq(Chars)
    BY <1>1, <2>1, ConcatProperties
  <2>3. \A k \in 1 .. n - 1 : k + 1 \in 1 .. n
    BY <2>1
  <2>4. \A k \in 1 .. n - 1 : <<Blank>> \o Tail(v)[k] \in Seq(Chars)
    BY <2>1, <2>2, <2>3
  <2> HIDE DEF n
  <2>5. /\ ss \in Seq(Seq(Chars)) /\ Len(ss) = n
        /\ \A k \in 1 .. n : ss[k] = <<Blank>> \o v[k]
    BY <2>1, <2>2
  <2>6. tt \in Seq(Seq(Chars)) /\ Len(tt) = n - 1
        /\ \A k \in 1 .. n - 1 : tt[k] = <<Blank>> \o Tail(v)[k]
    BY <2>1, <2>4
  <2> HIDE DEF ss, tt
  <2>7. ss /= <<>>
    BY <2>1, <2>5, EmptySeq
  <2>8. /\ Tail(ss) \in Seq(Seq(Chars)) /\ Len(Tail(ss)) = n - 1
        /\ \A k \in 1 .. n - 1 : Tail(ss)[k] = ss[k + 1]
    BY <2>5, <2>7, HeadTailProperties
  <2>9. ASSUME NEW k \in 1 .. n - 1
        PROVE  Tail(ss)[k] = tt[k]
    <3>1. Tail(ss)[k] = ss[k + 1] /\ tt[k] = <<Blank>> \o Tail(v)[k]
      BY <2>6, <2>8
    <3>2. ss[k + 1] = <<Blank>> \o v[k + 1] /\ Tail(v)[k] = v[k + 1]
      BY <2>1, <2>3, <2>5
    <3> QED BY <3>1, <3>2
  <2>10. Tail(ss) = tt
    BY <2>6, <2>8, <2>9, SeqEqual
  <2>11. FlattenSeq(ss) \in Seq(Chars) /\ FlattenSeq(ss) = ss[1] \o FlattenSeq(tt)
         /\ FlattenSeq(tt) \in Seq(Chars)
    BY <2>5, <2>7, <2>10, FlattenFirst
  <2>12. ss[1] = <<Blank>> \o v[1] /\ v[1] \in Seq(Chars)
    BY <2>1, <2>5
  <2>13. Associates(<<Blank>>, v[1], FlattenSeq(tt))
    BY <1>1, <2>11, <2>12, ConcatAssociates
  <2> QED BY <1>3, <2>11, <2>12, <2>13 DEF Line, Associates, ss, tt
<1> QED BY <1>2, <1>3

LEMMA WrittenIs ==
    ASSUME NEW arg \in Seq(Chars), NEW w \in Written(arg)
    PROVE  /\ w \in Seq(Chars)
           /\ \/ \E q \in Quotes : w = <<q>> \o (Escaped(arg, {q, Escape}) \o <<q>>)
              \/ arg /= <<>> /\ w = Escaped(arg, Special)
<1>1. CASE \E q \in Quotes : w = <<q>> \o Escaped(arg, {q, Escape}) \o <<q>>
  <2>1. PICK q \in Quotes : w = (<<q>> \o Escaped(arg, {q, Escape})) \o <<q>>
    BY <1>1
  <2>2. <<q>> \in Seq(Chars)
    BY DEF Quotes, Chars
  <2>3. Escaped(arg, {q, Escape}) \in Seq(Chars)
    BY EscapedIs
  <2>4. Associates(<<q>>, Escaped(arg, {q, Escape}), <<q>>)
    BY <2>2, <2>3, ConcatAssociates
  <2>5. w \in Seq(Chars)
    <3>1. <<q>> \o Escaped(arg, {q, Escape}) \in Seq(Chars)
      BY <2>2, <2>3, ConcatProperties
    <3> QED BY <2>1, <2>2, <3>1, ConcatProperties
  <2> QED BY <2>1, <2>4, <2>5 DEF Associates
<1>2. CASE arg /= <<>> /\ w = Escaped(arg, Special)
  BY <1>2, EscapedIs
<1> QED BY <1>1, <1>2 DEF Written

LEMMA WaysAre ==
    ASSUME NEW args \in Seq(Seq(Chars)), NEW c \in CommandLines(args)
    PROVE  \E v \in Seq(Seq(Chars)) : /\ DOMAIN v = DOMAIN args
                                      /\ \A k \in DOMAIN args : v[k] \in Written(args[k])
                                      /\ c = Line(v) \o <<Tab>>
<1>1. PICK v \in [DOMAIN args -> UNION {Written(args[k]) : k \in DOMAIN args}] :
        /\ \A k \in DOMAIN args : v[k] \in Written(args[k])
        /\ c = FlattenSeq([k \in DOMAIN args |-> <<Blank>> \o v[k]]) \o <<Tab>>
  BY DEF CommandLines
<1>2. DOMAIN v = DOMAIN args /\ DOMAIN args = 1 .. Len(args) /\ Len(args) \in Nat
  BY <1>1
<1>3. \A k \in 1 .. Len(args) : args[k] \in Seq(Chars)
  OBVIOUS
<1>4. \A k \in 1 .. Len(args) : v[k] \in Seq(Chars)
  BY <1>1, <1>2, <1>3, WrittenIs
<1>5. v = [k \in 1 .. Len(args) |-> v[k]]
  BY <1>1, <1>2
<1>6. v \in Seq(Seq(Chars))
  BY <1>2, <1>4, <1>5
<1> QED BY <1>1, <1>2, <1>6 DEF Line

LEMMA WaysToLine ==
    ASSUME NEW args \in Seq(Seq(Chars)), NEW v \in Seq(Seq(Chars)), DOMAIN v = DOMAIN args,
           \A k \in DOMAIN args : v[k] \in Written(args[k])
    PROVE  Line(v) \o <<Tab>> \in CommandLines(args)
<1>1. v \in [DOMAIN args -> UNION {Written(args[k]) : k \in DOMAIN args}]
  <2>1. v = [k \in DOMAIN args |-> v[k]]
    OBVIOUS
  <2>2. \A k \in DOMAIN args : v[k] \in UNION {Written(args[i]) : i \in DOMAIN args}
    OBVIOUS
  <2> QED BY <2>1, <2>2
<1> QED BY <1>1 DEF CommandLines, Line

\* A command line is a tab, or a blank, its first argument, and the line of the others.
LEMMA CommandLineIs ==
    ASSUME NEW args \in Seq(Seq(Chars)), NEW c \in CommandLines(args)
    PROVE  /\ c \in Seq(Chars)
           /\ args = <<>> => c = <<Tab>>
           /\ args /= <<>> => \E w \in Written(args[1]), r \in CommandLines(Tail(args)) :
                                 c = <<Blank>> \o (w \o r)
<1>1. PICK v \in Seq(Seq(Chars)) : /\ DOMAIN v = DOMAIN args
                                   /\ \A k \in DOMAIN args : v[k] \in Written(args[k])
                                   /\ c = Line(v) \o <<Tab>>
  BY WaysAre
<1>2. <<Tab>> \in Seq(Chars) /\ <<Blank>> \in Seq(Chars)
  BY DEF Tab, Blank, Chars
<1>3. Line(v) \in Seq(Chars)
  BY LineIs
<1>4. c \in Seq(Chars)
  BY <1>1, <1>2, <1>3, ConcatProperties
<1>5. Len(v) = Len(args) /\ DOMAIN v = 1 .. Len(v) /\ Len(v) \in Nat
  BY <1>1
<1>6. CASE args = <<>>
  <2>1. v = <<>>
    <3>1. Len(v) = 0
      BY <1>5, <1>6
    <3> QED BY <3>1, EmptySeq
  <2>2. Line(v) = <<>>
    BY <2>1, LineIs
  <2> QED BY <1>1, <1>2, <1>4, <1>6, <2>2, ConcatEmptySeq
<1>7. CASE args /= <<>>
  <2>1. Len(v) \in Nat \ {0}
    BY <1>5, <1>7, EmptySeq
  <2>2. v /= <<>>
    BY <2>1, EmptySeq
  <2>3. /\ Tail(v) \in Seq(Seq(Chars)) /\ Len(Tail(v)) = Len(v) - 1
        /\ \A k \in 1 .. Len(v) - 1 : Tail(v)[k] = v[k + 1]
    BY <2>2, HeadTailProperties
  <2>4. /\ Tail(args) \in Seq(Seq(Chars)) /\ Len(Tail(args)) = Len(v) - 1
        /\ \A k \in 1 .. Len(v) - 1 : Tail(args)[k] = args[k + 1]
    BY <1>5, <1>7, HeadTailProperties
  <2>5. DOMAIN Tail(v) = 1 .. Len(v) - 1 /\ DOMAIN Tail(args) = 1 .. Len(v) - 1
    BY <2>3, <2>4, LenProperties
  <2>6. \A k \in 1 .. Len(v) - 1 : k + 1 \in DOMAIN args
    BY <1>1, <1>5
  <2>7. \A k \in DOMAIN Tail(args) : Tail(v)[k] \in Written(Tail(args)[k])
    BY <1>1, <2>3, <2>4, <2>5, <2>6
  <2>8. Line(Tail(v)) \o <<Tab>> \in CommandLines(Tail(args))
    BY <2>3, <2>4, <2>5, <2>7, WaysToLine
  <2>9. v[1] \in Written(args[1]) /\ v[1] \in Seq(Chars)
    <3>1. 1 \in DOMAIN args /\ 1 \in 1 .. Len(v)
      BY <1>1, <1>5, <2>1
    <3> QED BY <1>1, <3>1, ElementOfSeq
  <2>10. Line(v) = <<Blank>> \o (v[1] \o Line(Tail(v))) /\ Line(Tail(v)) \in Seq(Chars)
    BY <2>2, <2>3, LineIs
  <2>11. v[1] \o Line(Tail(v)) \in Seq(Chars)
    BY <2>9, <2>10, ConcatProperties
  <2>12. Associates(<<Blank>>, v[1] \o Line(Tail(v)), <<Tab>>)
    BY <1>2, <2>11, ConcatAssociates
  <2>13. Associates(v[1], Line(Tail(v)), <<Tab>>)
    BY <1>2, <2>9, <2>10, ConcatAssociates
  <2>14. c = <<Blank>> \o (v[1] \o (Line(Tail(v)) \o <<Tab>>))
    BY <1>1, <2>10, <2>12, <2>13 DEF Associates
  <2> QED BY <1>4, <1>7, <2>8, <2>9, <2>14
<1> QED BY <1>6, <1>7

-----------------------------------------------------------------------------
(* What strToArgv has before it: of the argument that it is in the         *)
(* characters left, and the line of the arguments behind.                  *)

InPlain(arg, todo, t) ==
    /\ todo /= <<>>
    /\ arg \in Seq(Chars)
    /\ \E left \in Seq(Chars), r \in CommandLines(Tail(todo)) :
          /\ todo[1] = arg \o left
          /\ t = Escaped(left, Special) \o r

InQuotes(arg, todo, q, t) ==
    /\ todo /= <<>>
    /\ q \in Quotes
    /\ arg \in Seq(Chars)
    /\ \E left \in Seq(Chars), r \in CommandLines(Tail(todo)) :
          /\ todo[1] = arg \o left
          /\ t = Escaped(left, {q, Escape}) \o (<<q>> \o r)

LEMMA TakesOne ==
    ASSUME NEW arg \in Seq(Chars), NEW left \in Seq(Chars), left /= <<>>
    PROVE  /\ Append(arg, left[1]) \in Seq(Chars)
           /\ Tail(left) \in Seq(Chars)
           /\ arg \o left = Append(arg, left[1]) \o Tail(left)
  OBVIOUS

\* Behind its first character, a sequence is as it was before that was put there.
LEMMA PutInFront ==
    ASSUME NEW a, NEW b, NEW s \in Seq(Chars), a \in Chars, b \in Chars
    PROVE  /\ <<a>> \o s /= <<>> /\ (<<a>> \o s)[1] = a /\ Tail(<<a>> \o s) = s
           /\ Len(<<a, b>> \o s) > 1 /\ (<<a, b>> \o s)[1] = a /\ (<<a, b>> \o s)[2] = b
           /\ SubSeq(<<a, b>> \o s, 3, Len(<<a, b>> \o s)) = s
  OBVIOUS

EscapeTaken(left, these, r, t) ==
    IF left[1] \in these
      THEN /\ t[1] = Escape /\ Len(t) > 1 /\ t[2] = left[1]
           /\ SubSeq(t, 3, Len(t)) = Escaped(Tail(left), these) \o r
      ELSE t[1] = left[1] /\ t /= <<>> /\ Tail(t) = Escaped(Tail(left), these) \o r

LEMMA EscapeTakes ==
    ASSUME NEW left \in Seq(Chars), left /= <<>>, NEW these, NEW r \in Seq(Chars)
    PROVE  EscapeTaken(left, these, r, Escaped(left, these) \o r)
<1> DEFINE rest == Escaped(Tail(left), these)  first == EscapedChar(left[1], these)
<1>1. left[1] \in Chars /\ Tail(left) \in Seq(Chars)
  OBVIOUS
<1>2. rest \in Seq(Chars) /\ Escaped(left, these) = first \o rest
  BY <1>1, EscapedIs
<1>3. Escape \in Chars
  BY DEF Escape, Chars
<1>4. first \in Seq(Chars)
  BY <1>1, <1>3 DEF EscapedChar
<1>5. rest \o r \in Seq(Chars)
  BY <1>2, ConcatProperties
<1>6. Associates(first, rest, r)
  BY <1>2, <1>4, ConcatAssociates
<1>7. Escaped(left, these) \o r = first \o (rest \o r)
  BY <1>2, <1>6 DEF Associates
<1> HIDE DEF rest
<1>8. CASE left[1] \in these
  <2>1. Escaped(left, these) \o r = <<Escape, left[1]>> \o (rest \o r)
    BY <1>7, <1>8 DEF EscapedChar
  <2> QED BY <1>1, <1>3, <1>5, <1>8, <2>1, PutInFront DEF EscapeTaken, rest
<1>9. CASE left[1] \notin these
  <2>1. Escaped(left, these) \o r = <<left[1]>> \o (rest \o r)
    BY <1>7, <1>9 DEF EscapedChar
  <2> QED BY <1>1, <1>3, <1>5, <1>9, <2>1, PutInFront DEF EscapeTaken, rest
<1> QED BY <1>8, <1>9

\* Outside of quotes the argument is over, or goes on with an escaped character or
\* one that needs no escape.
PlainTaken(arg, todo, t) ==
    \/ t \in CommandLines(Tail(todo)) /\ arg = todo[1]
    \/ /\ t[1] = Escape /\ Len(t) > 1
       /\ InPlain(Append(arg, t[2]), todo, SubSeq(t, 3, Len(t)))
    \/ t /= <<>> /\ t[1] \notin Special /\ InPlain(Append(arg, t[1]), todo, Tail(t))

LEMMA PlainTakes ==
    ASSUME NEW arg, NEW todo \in Seq(Seq(Chars)), NEW t, InPlain(arg, todo, t)
    PROVE  PlainTaken(arg, todo, t)
<1>1. PICK left \in Seq(Chars), r \in CommandLines(Tail(todo)) :
        /\ todo[1] = arg \o left
        /\ t = Escaped(left, Special) \o r
  BY DEF InPlain
<1>2. todo /= <<>> /\ arg \in Seq(Chars) /\ Tail(todo) \in Seq(Seq(Chars))
  BY DEF InPlain
<1>3. r \in Seq(Chars)
  BY <1>2, CommandLineIs
<1>4. CASE left = <<>>
  <2>1. Escaped(left, Special) = <<>>
    BY <1>4, EscapedIs
  <2>2. t = r
    BY <1>1, <1>3, <2>1, ConcatEmptySeq
  <2>3. todo[1] = arg
    BY <1>1, <1>2, <1>4, ConcatEmptySeq
  <2> QED BY <2>2, <2>3 DEF PlainTaken
<1>5. CASE left /= <<>>
  <2>1. EscapeTaken(left, Special, r, t)
    BY <1>1, <1>3, <1>5, EscapeTakes
  <2>2. /\ Append(arg, left[1]) \in Seq(Chars) /\ Tail(left) \in Seq(Chars)
        /\ todo[1] = Append(arg, left[1]) \o Tail(left)
    BY <1>1, <1>2, <1>5, TakesOne
  <2>3. InPlain(Append(arg, left[1]), todo, Escaped(Tail(left), Special) \o r)
    BY <1>2, <2>2 DEF InPlain
  <2> QED BY <2>1, <2>3 DEF EscapeTaken, PlainTaken
<1> QED BY <1>4, <1>5

QuoteTaken(arg, todo, q, t) ==
    \/ t /= <<>> /\ t[1] = q /\ InPlain(arg, todo, Tail(t))
    \/ /\ t[1] = Escape /\ Len(t) > 1
       /\ InQuotes(Append(arg, t[2]), todo, q, SubSeq(t, 3, Len(t)))
    \/ t /= <<>> /\ t[1] \notin {q, Escape} /\ InQuotes(Append(arg, t[1]), todo, q, Tail(t))

LEMMA QuoteTakes ==
    ASSUME NEW arg, NEW todo \in Seq(Seq(Chars)), NEW q, NEW t, InQuotes(arg, todo, q, t)
    PROVE  QuoteTaken(arg, todo, q, t)
<1>1. PICK left \in Seq(Chars), r \in CommandLines(Tail(todo)) :
        /\ todo[1] = arg \o left
        /\ t = Escaped(left, {q, Escape}) \o (<<q>> \o r)
  BY DEF InQuotes
<1>2. todo /= <<>> /\ arg \in Seq(Chars) /\ Tail(todo) \in Seq(Seq(Chars)) /\ q \in Quotes
  BY DEF InQuotes
<1>3. r \in Seq(Chars) /\ q \in Chars
  <2>1. Quotes \subseteq Chars
    BY DEF Quotes, Chars
  <2> QED BY <1>2, <2>1, CommandLineIs
<1>4. <<q>> \o r \in Seq(Chars)
  BY <1>3, ConcatProperties
<1>5. CASE left = <<>>
  <2>1. Escaped(left, {q, Escape}) = <<>>
    BY <1>5, EscapedIs
  <2>2. t = <<q>> \o r
    BY <1>1, <1>4, <2>1, ConcatEmptySeq
  <2>3. t /= <<>> /\ t[1] = q /\ Tail(t) = r
    BY <1>3, <2>2, PutInFront
  <2>4. Escaped(left, Special) \o r = r
    <3>1. Escaped(left, Special) = <<>>
      BY <1>5, EscapedIs
    <3> QED BY <1>3, <3>1, ConcatEmptySeq
  <2>5. InPlain(arg, todo, Tail(t))
    BY <1>1, <1>2, <2>3, <2>4 DEF InPlain
  <2> QED BY <2>3, <2>5 DEF QuoteTaken
<1>6. CASE left /= <<>>
  <2>1. EscapeTaken(left, {q, Escape}, <<q>> \o r, t)
    BY <1>1, <1>4, <1>6, EscapeTakes
  <2>2. /\ Append(arg, left[1]) \in Seq(Chars) /\ Tail(left) \in Seq(Chars)
        /\ todo[1] = Append(arg, left[1]) \o Tail(left)
    BY <1>1, <1>2, <1>6, TakesOne
  <2>3. InQuotes(Append(arg, left[1]), todo, q, Escaped(Tail(left), {q, Escape}) \o (<<q>> \o r))
    BY <1>2, <2>2 DEF InQuotes
  <2> QED BY <2>1, <2>3 DEF EscapeTaken, QuoteTaken
<1> QED BY <1>5, <1>6

\* Between arguments there is the blank in front of one or the tab at the end, and
\* behind that the argument, quoted or not, or nothing.
LineTaken(todo, c) ==
    /\ c \in Seq(Chars) /\ c /= <<>> /\ c[1] \in {Blank, Tab}
    /\ todo = <<>> => Tail(c) = <<>>
    /\ todo /= <<>> =>
          /\ Tail(c) /= <<>>
          /\ \/ Tail(c)[1] \in Quotes /\ InQuotes(<<>>, todo, Tail(c)[1], Tail(Tail(c)))
             \/ /\ Tail(c)[1] = Escape /\ Len(Tail(c)) > 1
                /\ InPlain(<<Tail(c)[2]>>, todo, SubSeq(Tail(c), 3, Len(Tail(c))))
             \/ /\ Tail(c)[1] \notin Special
                /\ InPlain(<<Tail(c)[1]>>, todo, Tail(Tail(c)))

LEMMA LineTakes ==
    ASSUME NEW todo \in Seq(Seq(Chars)), NEW c \in CommandLines(todo)
    PROVE  LineTaken(todo, c)
<1>1. c \in Seq(Chars)
  BY CommandLineIs
<1>2. CASE todo = <<>>
  <2>1. c = <<Tab>>
    BY <1>2, CommandLineIs
  <2>2. c /= <<>> /\ c[1] = Tab /\ Tail(c) = <<>>
    BY <2>1
  <2> QED BY <1>1, <1>2, <2>2 DEF LineTaken
<1>3. CASE todo /= <<>>
  <2>1. PICK w \in Written(todo[1]), r \in CommandLines(Tail(todo)) : c = <<Blank>> \o (w \o r)
    BY <1>3, CommandLineIs
  <2>2. todo[1] \in Seq(Chars) /\ Tail(todo) \in Seq(Seq(Chars)) /\ Blank \in Chars
    BY <1>3 DEF Blank, Chars
  <2>3. r \in Seq(Chars) /\ w \in Seq(Chars)
    BY <2>2, CommandLineIs, WrittenIs
  <2>4. w \o r \in Seq(Chars)
    BY <2>3, ConcatProperties
  <2> DEFINE t == w \o r
  <2>5. c /= <<>> /\ c[1] = Blank /\ Tail(c) = t
    BY <2>1, <2>2, <2>4, PutInFront
  <2> HIDE DEF t
  <2>6. /\ t /= <<>>
        /\ \/ t[1] \in Quotes /\ InQuotes(<<>>, todo, t[1], Tail(t))
           \/ /\ t[1] = Escape /\ Len(t) > 1
              /\ InPlain(<<t[2]>>, todo, SubSeq(t, 3, Len(t)))
           \/ t[1] \notin Special /\ InPlain(<<t[1]>>, todo, Tail(t))
    <3>1. <<>> \o todo[1] = todo[1] /\ <<>> \in Seq(Chars)
      BY <2>2, ConcatEmptySeq, EmptySeq
    <3>2. CASE \E q \in Quotes : w = <<q>> \o (Escaped(todo[1], {q, Escape}) \o <<q>>)
      <4>1. PICK q \in Quotes : w = <<q>> \o (Escaped(todo[1], {q, Escape}) \o <<q>>)
        BY <3>2
      <4>2. q \in Chars /\ <<q>> \in Seq(Chars)
        BY DEF Quotes, Chars
      <4> DEFINE e == Escaped(todo[1], {q, Escape})
      <4>3. e \in Seq(Chars)
        BY <2>2, EscapedIs
      <4>4. e \o <<q>> \in Seq(Chars)
        BY <4>2, <4>3, ConcatProperties
      <4>5. Associates(<<q>>, e \o <<q>>, r) /\ Associates(e, <<q>>, r)
        BY <2>3, <4>2, <4>3, <4>4, ConcatAssociates
      <4>6. t = <<q>> \o (e \o (<<q>> \o r))
        BY <4>1, <4>5 DEF Associates, t
      <4>7. e \o (<<q>> \o r) \in Seq(Chars)
        BY <2>3, <4>2, <4>3, ConcatProperties
      <4>8. t /= <<>> /\ t[1] = q /\ Tail(t) = e \o (<<q>> \o r)
        BY <4>2, <4>6, <4>7, PutInFront
      <4>9. InQuotes(<<>>, todo, q, Tail(t))
        BY <1>3, <2>2, <3>1, <4>8 DEF InQuotes
      <4> QED BY <4>8, <4>9
    <3>3. CASE todo[1] /= <<>> /\ w = Escaped(todo[1], Special)
      <4>1. EscapeTaken(todo[1], Special, r, t)
        BY <2>2, <2>3, <3>3, EscapeTakes DEF t
      <4>2. /\ Append(<<>>, todo[1][1]) \in Seq(Chars) /\ Tail(todo[1]) \in Seq(Chars)
            /\ <<>> \o todo[1] = Append(<<>>, todo[1][1]) \o Tail(todo[1])
        BY <2>2, <3>1, <3>3, TakesOne
      <4>3. Append(<<>>, todo[1][1]) = <<todo[1][1]>>
        OBVIOUS
      <4>4. InPlain(<<todo[1][1]>>, todo, Escaped(Tail(todo[1]), Special) \o r)
        BY <1>3, <3>1, <4>2, <4>3 DEF InPlain
      <4>5. CASE todo[1][1] \in Special
        <5>1. t /= <<>>
          BY <4>1, <4>5 DEF EscapeTaken
        <5> QED BY <4>1, <4>4, <4>5, <5>1 DEF EscapeTaken
      <4>6. CASE todo[1][1] \notin Special
        BY <4>1, <4>4, <4>6 DEF EscapeTaken
      <4> QED BY <4>5, <4>6
    <3> QED BY <2>2, <3>2, <3>3, WrittenIs
  <2> QED BY <1>1, <1>3, <2>5, <2>6 DEF LineTaken
<1> QED BY <1>2, <1>3

-----------------------------------------------------------------------------
(* strToArgv gives the arguments back                                      *)

Reads(todo) ==
    \/ /\ currentState = "OutOfArg"
       /\ \E c \in CommandLines(todo) : text = c \/ text = Tail(c)
    \/ /\ currentState = "InArg"
       /\ InPlain(currentArg, todo, text)
    \/ /\ currentState = "InArgQuote"
       /\ InQuotes(currentArg, todo, currentQuoteChar, text)

ArgvInv ==
    kind = "args" =>
        /\ job \in {"argv", "done"}
        /\ aArgv \in Seq(Seq(Chars))
        /\ job = "argv" => \E todo \in Seq(Seq(Chars)) : original = aArgv \o todo /\ Reads(todo)
        /\ job = "done" => result /\ aArgv = original

LEMMA CharsAre ==
    /\ Quotes \cap {Blank, Tab} = {} /\ Escape \notin Quotes \cup {Blank, Tab}
    /\ Special = {Escape, Blank, Tab} \cup Quotes
  BY DEF Quotes, Blank, Tab, Escape, Special

ArgvStep == ArgvQuote \/ ArgvBlank \/ ArgvEscape \/ ArgvOther

\* Between the arguments: the blank or the tab is skipped, an argument begins.
LEMMA OutReads ==
    ASSUME currentState = "OutOfArg", NEW todo \in Seq(Seq(Chars)), Reads(todo), ArgvStep
    PROVE  Reads(todo)' /\ UNCHANGED aArgv
<1>1. PICK c \in CommandLines(todo) : text = c \/ text = Tail(c)
  BY DEF Reads
<1>2. LineTaken(todo, c)
  BY LineTakes
<1>3. CASE text = c
  <2>1. ArgvBlank
    BY <1>2, <1>3, CharsAre DEF LineTaken, ArgvStep, ArgvReads, ArgvQuote, ArgvEscape, ArgvOther
  <2>2. currentState' = "OutOfArg" /\ text' = Tail(c) /\ UNCHANGED aArgv
    BY <1>3, <2>1 DEF ArgvBlank
  <2> QED BY <2>2 DEF Reads
<1>4. CASE text = Tail(c)
  <2>1. text /= <<>>
    BY DEF ArgvStep, ArgvReads, ArgvQuote, ArgvBlank, ArgvEscape, ArgvOther
  <2>2. \/ text[1] \in Quotes /\ InQuotes(<<>>, todo, text[1], Tail(text))
        \/ /\ text[1] = Escape /\ Len(text) > 1
           /\ InPlain(<<text[2]>>, todo, SubSeq(text, 3, Len(text)))
        \/ /\ text[1] \notin Special
           /\ InPlain(<<text[1]>>, todo, Tail(text))
    BY <1>2, <1>4, <2>1 DEF LineTaken
  <2>3. CASE ArgvQuote
    BY <2>2, <2>3, CharsAre DEF ArgvQuote, ArgvReads, ArgBegun, Reads
  <2>4. CASE ArgvBlank
    BY <2>2, <2>4, CharsAre DEF ArgvBlank, ArgvReads
  <2>5. CASE ArgvEscape
    <3>1. text[1] = Escape
      BY <2>5 DEF ArgvEscape, ArgvReads
    <3>2. Len(text) > 1 /\ InPlain(<<text[2]>>, todo, SubSeq(text, 3, Len(text)))
      BY <2>2, <3>1, CharsAre
    <3>3. /\ currentArg' = <<text[2]>> /\ currentState' = "InArg"
          /\ text' = SubSeq(text, 3, Len(text)) /\ UNCHANGED aArgv
      BY <2>5, <3>2 DEF ArgvEscape, ArgBegun
    <3> QED BY <3>2, <3>3 DEF Reads
  <2>6. CASE ArgvOther
    <3>1. text[1] \notin Special
      BY <2>6 DEF ArgvOther, ArgvReads
    <3>2. InPlain(<<text[1]>>, todo, Tail(text))
      BY <2>2, <3>1, CharsAre
    <3>3. /\ currentArg' = <<text[1]>> /\ currentState' = "InArg"
          /\ text' = Tail(text) /\ UNCHANGED aArgv
      BY <2>6 DEF ArgvOther, ArgBegun
    <3> QED BY <3>2, <3>3 DEF Reads
  <2> QED BY <2>3, <2>4, <2>5, <2>6 DEF ArgvStep
<1> QED BY <1>1, <1>3, <1>4

\* In an argument outside of quotes: it goes on, or it is over and handed out.
LEMMA PlainReads ==
    ASSUME currentState = "InArg", NEW todo \in Seq(Seq(Chars)), Reads(todo), ArgvStep
    PROVE  \/ Reads(todo)' /\ UNCHANGED aArgv
           \/ Reads(Tail(todo))' /\ aArgv' = Append(aArgv, todo[1])
<1>1. InPlain(currentArg, todo, text) /\ todo /= <<>>
  BY DEF Reads, InPlain
<1>2. PlainTaken(currentArg, todo, text)
  BY <1>1, PlainTakes
<1>3. CASE text \in CommandLines(Tail(todo)) /\ currentArg = todo[1]
  <2>1. text[1] \in {Blank, Tab}
    <3>1. Tail(todo) \in Seq(Seq(Chars))
      BY <1>1
    <3> QED BY <1>3, <3>1, LineTakes DEF LineTaken
  <2>2. ArgvBlank
    BY <2>1, CharsAre DEF ArgvStep, ArgvReads, ArgvQuote, ArgvEscape, ArgvOther
  <2>3. /\ currentState' = "OutOfArg" /\ text' = Tail(text)
        /\ aArgv' = Append(aArgv, currentArg)
    BY <2>2 DEF ArgvBlank
  <2> QED BY <1>3, <2>3 DEF Reads
<1>4. CASE /\ text[1] = Escape /\ Len(text) > 1
           /\ InPlain(Append(currentArg, text[2]), todo, SubSeq(text, 3, Len(text)))
  <2>1. ArgvEscape
    BY <1>4, CharsAre DEF ArgvStep, ArgvReads, ArgvQuote, ArgvBlank, ArgvOther
  <2>2. /\ currentArg' = Append(currentArg, text[2]) /\ currentState' = "InArg"
        /\ text' = SubSeq(text, 3, Len(text)) /\ UNCHANGED aArgv
    BY <1>4, <2>1 DEF ArgvEscape, ArgBegun
  <2> QED BY <1>4, <2>2 DEF Reads
<1>5. CASE text[1] \notin Special /\ InPlain(Append(currentArg, text[1]), todo, Tail(text))
  <2>1. ArgvOther
    BY <1>5, CharsAre DEF ArgvStep, ArgvReads, ArgvQuote, ArgvBlank, ArgvEscape
  <2>2. /\ currentArg' = Append(currentArg, text[1]) /\ currentState' = "InArg"
        /\ text' = Tail(text) /\ UNCHANGED aArgv
    BY <2>1 DEF ArgvOther, ArgBegun
  <2> QED BY <1>5, <2>2 DEF Reads
<1> QED BY <1>2, <1>3, <1>4, <1>5 DEF PlainTaken

\* In quotes: they are closed, or the argument goes on.
LEMMA QuoteReads ==
    ASSUME currentState = "InArgQuote", NEW todo \in Seq(Seq(Chars)), Reads(todo), ArgvStep
    PROVE  Reads(todo)' /\ UNCHANGED aArgv
<1>1. InQuotes(currentArg, todo, currentQuoteChar, text) /\ currentQuoteChar \in Quotes
  BY DEF Reads, InQuotes
<1>2. QuoteTaken(currentArg, todo, currentQuoteChar, text)
  BY <1>1, QuoteTakes
<1>3. CASE text[1] = currentQuoteChar /\ InPlain(currentArg, todo, Tail(text))
  <2>1. ArgvQuote
    BY <1>1, <1>3, CharsAre DEF ArgvStep, ArgvReads, ArgvBlank, ArgvEscape, ArgvOther
  <2>2. currentState' = "InArg" /\ text' = Tail(text) /\ UNCHANGED <<currentArg, aArgv>>
    BY <1>3, <2>1 DEF ArgvQuote
  <2> QED BY <1>3, <2>2 DEF Reads
<1>4. CASE /\ text[1] = Escape /\ Len(text) > 1
           /\ InQuotes(Append(currentArg, text[2]), todo, currentQuoteChar,
                       SubSeq(text, 3, Len(text)))
  <2>1. ArgvEscape
    BY <1>4, CharsAre DEF ArgvStep, ArgvReads, ArgvQuote, ArgvBlank, ArgvOther
  <2>2. /\ currentArg' = Append(currentArg, text[2]) /\ currentState' = "InArgQuote"
        /\ text' = SubSeq(text, 3, Len(text)) /\ UNCHANGED <<aArgv, currentQuoteChar>>
    BY <1>4, <2>1 DEF ArgvEscape, ArgBegun
  <2> QED BY <1>4, <2>2 DEF Reads
<1>5. CASE /\ text[1] \notin {currentQuoteChar, Escape}
           /\ InQuotes(Append(currentArg, text[1]), todo, currentQuoteChar, Tail(text))
  <2>1. /\ currentArg' = Append(currentArg, text[1]) /\ currentState' = "InArgQuote"
        /\ text' = Tail(text) /\ UNCHANGED <<aArgv, currentQuoteChar>>
    <3>1. CASE ArgvQuote
      BY <1>5, <3>1 DEF ArgvQuote
    <3>2. CASE ArgvBlank
      BY <1>5, <3>2 DEF ArgvBlank
    <3>3. CASE ArgvEscape
      BY <1>5, <3>3 DEF ArgvEscape, ArgvReads
    <3>4. CASE ArgvOther
      BY <1>5, <3>4 DEF ArgvOther, ArgBegun
    <3> QED BY <3>1, <3>2, <3>3, <3>4 DEF ArgvStep
  <2> QED BY <1>5, <2>1 DEF Reads
<1> QED BY <1>2, <1>3, <1>4, <1>5 DEF QuoteTaken

LEMMA HandsOne ==
    ASSUME NEW A, NEW args \in Seq(A), NEW todo \in Seq(A), todo /= <<>>
    PROVE  /\ todo[1] \in A /\ Tail(todo) \in Seq(A)
           /\ args \o todo = Append(args, todo[1]) \o Tail(todo)
           /\ Append(args, todo[1]) \in Seq(A)
  OBVIOUS

LEMMA ArgvStepKeeps ==
    ASSUME ArgvInv, ArgvStep
    PROVE  ArgvInv'
<1>1. job = "argv" /\ job' = job /\ UNCHANGED <<original, kind, result>>
  BY DEF ArgvStep, ArgvReads, ArgvKeeps, ArgvQuote, ArgvBlank, ArgvEscape, ArgvOther
<1> SUFFICES ASSUME kind = "args"
             PROVE  /\ aArgv' \in Seq(Seq(Chars))
                    /\ \E todo \in Seq(Seq(Chars)) : original = aArgv' \o todo /\ Reads(todo)'
  BY <1>1 DEF ArgvInv
<1>2. aArgv \in Seq(Seq(Chars))
  BY DEF ArgvInv
<1>3. PICK todo \in Seq(Seq(Chars)) : original = aArgv \o todo /\ Reads(todo)
  BY <1>1 DEF ArgvInv
<1>4. CASE UNCHANGED aArgv /\ Reads(todo)'
  BY <1>2, <1>3, <1>4
<1>5. CASE currentState = "InArg" /\ Reads(Tail(todo))' /\ aArgv' = Append(aArgv, todo[1])
  <2>1. todo /= <<>>
    BY <1>3, <1>5 DEF Reads, InPlain
  <2>2. /\ todo[1] \in Seq(Chars) /\ Tail(todo) \in Seq(Seq(Chars))
        /\ aArgv \o todo = Append(aArgv, todo[1]) \o Tail(todo)
        /\ Append(aArgv, todo[1]) \in Seq(Seq(Chars))
    BY <1>2, <2>1, HandsOne
  <2> QED BY <1>3, <1>5, <2>2
<1>6. currentState \in {"OutOfArg", "InArg", "InArgQuote"}
  BY <1>3 DEF Reads
<1> QED BY <1>3, <1>4, <1>5, <1>6, OutReads, PlainReads, QuoteReads

\* At the end nothing is left to read, so that the last tab has been: no quote is open.
LEMMA ArgvEndKeeps ==
    ASSUME ArgvInv, ArgvEnd
    PROVE  ArgvInv'
<1>1. job = "argv" /\ job' = "done" /\ text = <<>> /\ UNCHANGED <<original, kind>>
      /\ aArgv' = IF currentState = "InArg" THEN Append(aArgv, currentArg) ELSE aArgv
  BY DEF ArgvEnd
<1> SUFFICES ASSUME kind = "args"
             PROVE  aArgv' \in Seq(Seq(Chars)) /\ result' /\ aArgv' = original
  BY <1>1 DEF ArgvInv
<1>2. aArgv \in Seq(Seq(Chars))
  BY DEF ArgvInv
<1>3. PICK todo \in Seq(Seq(Chars)) : original = aArgv \o todo /\ Reads(todo)
  BY <1>1 DEF ArgvInv
<1>4. currentState \notin {"InArg", "InArgQuote"}
  <2>1. ASSUME InPlain(currentArg, todo, text) PROVE FALSE
    <3>1. todo /= <<>> /\ PlainTaken(currentArg, todo, text)
      BY <2>1, PlainTakes DEF InPlain
    <3>2. text \in CommandLines(Tail(todo))
      <4>1. ~(Len(text) > 1)
        BY <1>1
      <4> QED BY <1>1, <3>1, <4>1 DEF PlainTaken
    <3>3. Tail(todo) \in Seq(Seq(Chars))
      BY <3>1
    <3> QED BY <1>1, <3>2, <3>3, LineTakes DEF LineTaken
  <2>2. ASSUME InQuotes(currentArg, todo, currentQuoteChar, text) PROVE FALSE
    <3>1. QuoteTaken(currentArg, todo, currentQuoteChar, text)
      BY <2>2, QuoteTakes
    <3>2. ~(Len(text) > 1)
      BY <1>1
    <3> QED BY <1>1, <3>1, <3>2 DEF QuoteTaken
  <2> QED BY <1>3, <2>1, <2>2 DEF Reads
<1>5. PICK c \in CommandLines(todo) : text = c \/ text = Tail(c)
  BY <1>3, <1>4 DEF Reads
<1>6. todo = <<>>
  BY <1>1, <1>5, LineTakes DEF LineTaken
<1>7. original = aArgv
  BY <1>2, <1>3, <1>6, ConcatEmptySeq
<1>8. result'
  <2>1. currentState /= "InArgQuote"
    BY <1>4
  <2> QED BY <2>1, Zenon DEF ArgvEnd
<1>9. aArgv' = aArgv
  BY <1>1, <1>4
<1> QED BY <1>2, <1>7, <1>8, <1>9

-----------------------------------------------------------------------------
(* decodeUrl undoes encodeUrl                                              *)

\* The function of decodeUriOnce: what the text from position m on is decoded to.
DecodedFrom(f, s, i) ==
    IF i > Len(s) THEN <<>>
    ELSE IF s[i] = Percent
      THEN <<16 * HexValue(s[i + 1]) + HexValue(s[i + 2])>> \o f[i + 3]
    ELSE <<s[i]>> \o f[i + 1]

Decoding(f, s, m) == f = [i \in m .. Len(s) + 3 |-> DecodedFrom(f, s, i)]

LEMMA DecodingStep ==
    ASSUME NEW s, Len(s) \in Nat, NEW m \in 1 .. Len(s) + 2, NEW f, Decoding(f, s, m + 1)
    PROVE  \E h : Decoding(h, s, m)
<1> DEFINE h == [i \in m .. Len(s) + 3 |-> IF i \in m + 1 .. Len(s) + 3 THEN f[i]
                                            ELSE DecodedFrom(f, s, i)]
<1>1. ASSUME NEW i \in m .. Len(s) + 3
      PROVE  h[i] = DecodedFrom(h, s, i)
  <2>1. i <= Len(s) => i + 3 \in m + 1 .. Len(s) + 3 /\ i + 1 \in m + 1 .. Len(s) + 3
    OBVIOUS
  <2>2. \A j \in m + 1 .. Len(s) + 3 : h[j] = f[j]
    OBVIOUS
  <2>3. i <= Len(s) => h[i + 3] = f[i + 3] /\ h[i + 1] = f[i + 1]
    BY <2>1, <2>2
  <2> HIDE DEF h
  <2>4. DecodedFrom(h, s, i) = DecodedFrom(f, s, i)
    <3>1. CASE i > Len(s)
      BY <3>1 DEF DecodedFrom
    <3>2. CASE i <= Len(s)
      BY <2>3, <3>2 DEF DecodedFrom
    <3> QED BY <3>1, <3>2
  <2>5. h[i] = DecodedFrom(f, s, i)
    <3>1. CASE i \in m + 1 .. Len(s) + 3
      <4>1. f[i] = DecodedFrom(f, s, i)
        BY <3>1 DEF Decoding
      <4> QED BY <2>2, <3>1, <4>1
    <3>2. CASE i \notin m + 1 .. Len(s) + 3
      BY <3>2 DEF h
    <3> QED BY <3>1, <3>2
  <2> QED BY <2>4, <2>5
<1>2. h = [i \in m .. Len(s) + 3 |-> h[i]]
  OBVIOUS
<1> HIDE DEF h
<1>3. Decoding(h, s, m)
  BY <1>1, <1>2 DEF Decoding
<1> QED BY <1>3

LEMMA DecodingEnd ==
    ASSUME NEW s, Len(s) \in Nat
    PROVE  \E f : Decoding(f, s, Len(s) + 3)
<1> DEFINE f == [i \in Len(s) + 3 .. Len(s) + 3 |-> <<>>]
<1>1. \A i \in Len(s) + 3 .. Len(s) + 3 : DecodedFrom(f, s, i) = <<>>
  BY DEF DecodedFrom
<1>2. f = [i \in Len(s) + 3 .. Len(s) + 3 |-> DecodedFrom(f, s, i)]
  BY <1>1
<1>3. Decoding(f, s, Len(s) + 3)
  BY <1>2 DEF Decoding
<1> QED BY <1>3

LEMMA DecodedIs ==
    ASSUME NEW s, Len(s) \in Nat
    PROVE  \E f : Decoding(f, s, 1) /\ Decoded(s) = f[1]
<1> DEFINE behind == Len(s) + 3
           S == {k \in 0 .. behind - 1 : \E f : Decoding(f, s, behind - k)}
<1>1. 0 \in S
  <2>1. behind - 0 = behind /\ 0 \in 0 .. behind - 1
    OBVIOUS
  <2> QED BY <2>1, DecodingEnd
<1>2. ASSUME NEW k \in 0 .. (behind - 1) - 1, k \in S
      PROVE  k + 1 \in S
  <2>1. PICK f : Decoding(f, s, behind - k)
    BY <1>2
  <2>2. behind - (k + 1) \in 1 .. Len(s) + 2 /\ (behind - (k + 1)) + 1 = behind - k
        /\ k + 1 \in 0 .. behind - 1
    OBVIOUS
  <2>3. \E h : Decoding(h, s, behind - (k + 1))
    <3> HIDE DEF behind, S
    <3> QED BY <2>1, <2>2, DecodingStep
  <2> QED BY <2>2, <2>3
<1>3. behind - 1 \in S
  <2>1. behind - 1 \in Nat /\ behind - 1 \in 0 .. behind - 1
    OBVIOUS
  <2> HIDE DEF behind, S
  <2>2. \A k \in 0 .. behind - 1 : k \in S
    BY <1>1, <1>2, <2>1, CountingUp
  <2> QED BY <2>1, <2>2
<1>4. behind - (behind - 1) = 1
  OBVIOUS
<1>5. \E f : Decoding(f, s, 1)
  BY <1>3, <1>4
<1> DEFINE from == CHOOSE f : Decoding(f, s, 1)
<1>6. Decoding(from, s, 1)
  BY <1>5
<1>7. Decoded(s) = from[1]
  BY DEF Decoded, Decoding, DecodedFrom
<1> HIDE DEF from
<1> QED BY <1>6, <1>7

LEMMA HexBack ==
    ASSUME NEW c \in 0 .. 127
    PROVE  /\ IsHex(HexDigit(c \div 16)) /\ HexDigit(c \div 16) /= Percent
           /\ IsHex(HexDigit(c % 16)) /\ HexDigit(c % 16) /= Percent
           /\ 16 * HexValue(HexDigit(c \div 16)) + HexValue(HexDigit(c % 16)) = c
<1>1. c \div 16 \in 0 .. 15 /\ c % 16 \in 0 .. 15 /\ 16 * (c \div 16) + (c % 16) = c
  <2>1. c \div 16 \in 0 .. 15 /\ c % 16 \in 0 .. 15
    OBVIOUS
  <2>2. 16 * (c \div 16) + (c % 16) = c
    OBVIOUS
  <2> QED BY <2>1, <2>2
<1>2. ASSUME NEW n \in 0 .. 15
      PROVE  IsHex(HexDigit(n)) /\ HexDigit(n) /= Percent /\ HexValue(HexDigit(n)) = n
  BY DEF IsHex, HexDigit, HexValue, Percent
<1> QED BY <1>1, <1>2

\* The text from position i on begins with this piece, and goes on with the rest.
BeginsWith(e, i, piece, rest) == SubSeq(e, i, Len(e)) = piece \o rest

GoesOn(e, i, n, rest) == i + n - 1 <= Len(e) /\ SubSeq(e, i + n, Len(e)) = rest

LEMMA OneInText ==
    ASSUME NEW e \in Seq(Chars), NEW i \in 1 .. Len(e) + 1, NEW rest \in Seq(Chars),
           NEW a \in Chars, BeginsWith(e, i, <<a>>, rest)
    PROVE  GoesOn(e, i, 1, rest) /\ e[i] = a
<1> DEFINE t == SubSeq(e, i, Len(e))
<1>1. /\ Len(e) \in Nat /\ Len(t) = Len(e) - i + 1
      /\ \A k \in 1 .. Len(e) - i + 1 : t[k] = e[i + k - 1]
  OBVIOUS
<1>2. Len(t) = Len(rest) + 1 /\ t[1] = a /\ \A k \in 1 .. Len(rest) : t[k + 1] = rest[k]
  BY DEF BeginsWith
<1>3. i <= Len(e) /\ e[i] = a
  BY <1>1, <1>2
<1>4. \A k \in 1 .. Len(rest) : SubSeq(e, i + 1, Len(e))[k] = rest[k]
  BY <1>1, <1>2, <1>3
<1>5. SubSeq(e, i + 1, Len(e)) \in Seq(Chars) /\ Len(SubSeq(e, i + 1, Len(e))) = Len(rest)
  BY <1>1, <1>2, <1>3
<1>6. SubSeq(e, i + 1, Len(e)) = rest
  BY <1>4, <1>5, SeqEqual
<1>7. i + 1 - 1 <= Len(e)
  BY <1>1, <1>3
<1> QED BY <1>3, <1>6, <1>7 DEF GoesOn

LEMMA ThreeInText ==
    ASSUME NEW e \in Seq(Chars), NEW i \in 1 .. Len(e) + 1, NEW rest \in Seq(Chars),
           NEW a \in Chars, NEW b \in Chars, NEW c \in Chars,
           BeginsWith(e, i, <<a, b, c>>, rest)
    PROVE  GoesOn(e, i, 3, rest) /\ e[i] = a /\ e[i + 1] = b /\ e[i + 2] = c
<1> DEFINE t == SubSeq(e, i, Len(e))
<1>1. /\ Len(e) \in Nat /\ Len(t) = Len(e) - i + 1
      /\ \A k \in 1 .. Len(e) - i + 1 : t[k] = e[i + k - 1]
  OBVIOUS
<1>2. Len(t) = Len(rest) + 3 /\ t[1] = a /\ t[2] = b /\ t[3] = c
      /\ \A k \in 1 .. Len(rest) : t[k + 3] = rest[k]
  BY DEF BeginsWith
<1>3. i + 2 <= Len(e) /\ e[i] = a /\ e[i + 1] = b /\ e[i + 2] = c
  BY <1>1, <1>2
<1>4. \A k \in 1 .. Len(rest) : SubSeq(e, i + 3, Len(e))[k] = rest[k]
  BY <1>1, <1>2, <1>3
<1>5. SubSeq(e, i + 3, Len(e)) \in Seq(Chars) /\ Len(SubSeq(e, i + 3, Len(e))) = Len(rest)
  BY <1>1, <1>2, <1>3
<1>6. SubSeq(e, i + 3, Len(e)) = rest
  BY <1>4, <1>5, SeqEqual
<1>7. i + 3 - 1 <= Len(e)
  BY <1>1, <1>3
<1> QED BY <1>3, <1>6, <1>7 DEF GoesOn

Ascii(u) == \A k \in DOMAIN u : u[k] < 128 /\ u[k] /= Percent

\* From position i on e is u encoded: it is decoded to u, each percent sign in it
\* begins an escape, and without any it is u itself.
Encodes(f, e, i, u) ==
    /\ f[i] = u
    /\ \A j \in i .. Len(e) : e[j] = Percent => IsEscape(e, j)
    /\ (\A j \in i .. Len(e) : e[j] /= Percent) => EncodeUri(u) = u

LEMMA FirstAndRest ==
    ASSUME NEW u \in Seq(Chars), u /= <<>>
    PROVE  /\ <<u[1]>> \o Tail(u) = u /\ u[1] \in Chars /\ Tail(u) \in Seq(Chars)
           /\ Len(Tail(u)) = Len(u) - 1
           /\ Ascii(u) => u[1] < 128 /\ u[1] /= Percent /\ Ascii(Tail(u))
<1>1. Len(u) \in Nat \ {0} /\ u[1] \in Chars /\ Tail(u) \in Seq(Chars)
      /\ Len(Tail(u)) = Len(u) - 1 /\ \A k \in 1 .. Len(u) - 1 : Tail(u)[k] = u[k + 1]
  BY EmptySeq, HeadTailProperties, ElementOfSeq
<1>2. <<u[1]>> \o Tail(u) = u
  OBVIOUS
<1>3. ASSUME Ascii(u)
      PROVE  u[1] < 128 /\ u[1] /= Percent /\ Ascii(Tail(u))
  <2>1. \A k \in 1 .. Len(u) : u[k] < 128 /\ u[k] /= Percent
    BY <1>3 DEF Ascii
  <2>2. 1 \in 1 .. Len(u) /\ \A k \in 1 .. Len(u) - 1 : k + 1 \in 1 .. Len(u)
    BY <1>1
  <2>3. DOMAIN Tail(u) = 1 .. Len(u) - 1
    BY <1>1
  <2> QED BY <1>1, <2>1, <2>2, <2>3 DEF Ascii
<1> QED BY <1>1, <1>2, <1>3

LEMMA EncodesPlain ==
    ASSUME NEW e \in Seq(Chars), NEW f, Decoding(f, e, 1),
           NEW u \in Seq(Chars), u /= <<>>, Ascii(u), u[1] \in Plain,
           NEW i \in 1 .. Len(e) + 1, SubSeq(e, i, Len(e)) = EncodeUri(u)
    PROVE  /\ i + 1 \in 1 .. Len(e) + 1
           /\ SubSeq(e, i + 1, Len(e)) = EncodeUri(Tail(u))
           /\ Encodes(f, e, i + 1, Tail(u)) => Encodes(f, e, i, u)
<1>1. /\ <<u[1]>> \o Tail(u) = u /\ u[1] \in Chars /\ Tail(u) \in Seq(Chars)
      /\ u[1] /= Percent
  BY FirstAndRest
<1>2. EncodeUri(u) = <<u[1]>> \o EncodeUri(Tail(u)) /\ EncodeUri(Tail(u)) \in Seq(Chars)
  BY <1>1, EncodedIs DEF UrlPiece
<1>4. Len(e) \in Nat /\ i \in Nat
  OBVIOUS
<1>3. i <= Len(e) /\ e[i] = u[1] /\ SubSeq(e, i + 1, Len(e)) = EncodeUri(Tail(u))
  <2>1. BeginsWith(e, i, <<u[1]>>, EncodeUri(Tail(u)))
    BY <1>2 DEF BeginsWith
  <2>2. GoesOn(e, i, 1, EncodeUri(Tail(u))) /\ e[i] = u[1]
    BY <1>1, <1>2, <2>1, OneInText
  <2> QED BY <1>4, <2>2 DEF GoesOn
<1>5. i + 1 \in 1 .. Len(e) + 1
  BY <1>3, <1>4
<1>6. ASSUME Encodes(f, e, i + 1, Tail(u))
      PROVE  Encodes(f, e, i, u)
  <2>1. f[i] = u
    <3>1. f[i] = DecodedFrom(f, e, i)
      <4>1. i \in 1 .. Len(e) + 3
        BY <1>3, <1>4
      <4> QED BY <4>1 DEF Decoding
    <3>2. ~(i > Len(e)) /\ e[i] /= Percent
      BY <1>1, <1>3, <1>4
    <3>3. f[i + 1] = Tail(u)
      BY <1>6 DEF Encodes
    <3> QED BY <1>1, <1>3, <3>1, <3>2, <3>3 DEF DecodedFrom
  <2>2. \A j \in i .. Len(e) : j = i \/ j \in i + 1 .. Len(e)
    BY <1>4
  <2>3. \A j \in i .. Len(e) : e[j] = Percent => IsEscape(e, j)
    BY <1>1, <1>3, <1>6, <2>2 DEF Encodes
  <2>4. ASSUME \A j \in i .. Len(e) : e[j] /= Percent
        PROVE  EncodeUri(u) = u
    <3>1. \A j \in i + 1 .. Len(e) : j \in i .. Len(e)
      BY <1>4
    <3>2. EncodeUri(Tail(u)) = Tail(u)
      BY <1>6, <2>4, <3>1 DEF Encodes
    <3> QED BY <1>1, <1>2, <3>2
  <2> QED BY <2>1, <2>3, <2>4 DEF Encodes
<1> QED BY <1>3, <1>5, <1>6

LEMMA OneAndTwo ==
    ASSUME NEW a \in Chars, NEW b \in Chars, NEW c \in Chars
    PROVE  <<a>> \o <<b, c>> = <<a, b, c>>
<1>1. <<a>> \in Seq(Chars) /\ <<b, c>> \in Seq(Chars) /\ <<a, b, c>> \in Seq(Chars)
  OBVIOUS
<1>2. Len(<<a>>) = 1 /\ Len(<<b, c>>) = 2 /\ Len(<<a, b, c>>) = 3
  OBVIOUS
<1> DEFINE t == <<a>> \o <<b, c>>
<1>3. t \in Seq(Chars) /\ Len(t) = 3 /\ t[1] = a /\ t[2] = b /\ t[3] = c
  BY <1>1, <1>2, ConcatProperties
<1>4. \A i \in 1 .. 3 : t[i] = <<a, b, c>>[i]
  BY <1>3
<1> HIDE DEF t
<1>5. t = <<a, b, c>>
  BY <1>1, <1>2, <1>3, <1>4, SeqEqual
<1> QED BY <1>5 DEF t

LEMMA EncodesEscape ==
    ASSUME NEW e \in Seq(Chars), NEW f, Decoding(f, e, 1),
           NEW u \in Seq(Chars), u /= <<>>, Ascii(u), u[1] \notin Plain,
           NEW i \in 1 .. Len(e) + 1, SubSeq(e, i, Len(e)) = EncodeUri(u)
    PROVE  /\ i + 3 \in 1 .. Len(e) + 1
           /\ SubSeq(e, i + 3, Len(e)) = EncodeUri(Tail(u))
           /\ Encodes(f, e, i + 3, Tail(u)) => Encodes(f, e, i, u)
<1> DEFINE c == u[1]  high == HexDigit(c \div 16)  low == HexDigit(c % 16)
<1>1. /\ <<c>> \o Tail(u) = u /\ c \in Chars /\ Tail(u) \in Seq(Chars) /\ c < 128
  BY FirstAndRest
<1>2. c \in 0 .. 127
  <2> HIDE DEF c
  <2> QED BY <1>1 DEF Chars
<1>3. /\ IsHex(high) /\ high /= Percent /\ IsHex(low) /\ low /= Percent
      /\ 16 * HexValue(high) + HexValue(low) = c
  BY <1>2, HexBack
<1>4. high \in Chars /\ low \in Chars /\ Percent \in Chars
  BY <1>3 DEF IsHex, Chars, Percent
<1> HIDE DEF high, low
<1>5. EncodedChar(c) = <<Percent, high, low>>
  <2>1. EncodedChar(c) = <<Percent>> \o <<>> \o <<high, low>>
    BY <1>1 DEF EncodedChar, high, low
  <2>2. <<Percent>> \o <<>> = <<Percent>>
    BY <1>4, ConcatEmptySeq
  <2>3. <<Percent>> \o <<high, low>> = <<Percent, high, low>>
    BY <1>4, OneAndTwo
  <2> QED BY <2>1, <2>2, <2>3
<1>6. EncodeUri(u) = <<Percent, high, low>> \o EncodeUri(Tail(u))
      /\ EncodeUri(Tail(u)) \in Seq(Chars)
  BY <1>1, <1>5, EncodedIs DEF UrlPiece
<1>8. Len(e) \in Nat /\ i \in Nat
  OBVIOUS
<1>7. /\ i + 2 <= Len(e) /\ e[i] = Percent /\ e[i + 1] = high /\ e[i + 2] = low
      /\ SubSeq(e, i + 3, Len(e)) = EncodeUri(Tail(u))
  <2>1. BeginsWith(e, i, <<Percent, high, low>>, EncodeUri(Tail(u)))
    BY <1>6 DEF BeginsWith
  <2>2. /\ GoesOn(e, i, 3, EncodeUri(Tail(u)))
        /\ e[i] = Percent /\ e[i + 1] = high /\ e[i + 2] = low
    BY <1>4, <1>6, <2>1, ThreeInText
  <2> QED BY <1>8, <2>2 DEF GoesOn
<1>9. i + 3 \in 1 .. Len(e) + 1 /\ i \in i .. Len(e)
  BY <1>7, <1>8
<1>10. ASSUME Encodes(f, e, i + 3, Tail(u))
       PROVE  Encodes(f, e, i, u)
  <2>1. f[i] = u
    <3>1. f[i] = DecodedFrom(f, e, i)
      <4>1. i \in 1 .. Len(e) + 3
        BY <1>7, <1>8
      <4> QED BY <4>1 DEF Decoding
    <3>2. ~(i > Len(e))
      BY <1>7, <1>8
    <3>3. f[i + 3] = Tail(u)
      BY <1>10 DEF Encodes
    <3>4. f[i] = <<16 * HexValue(high) + HexValue(low)>> \o Tail(u)
      BY <1>7, <3>1, <3>2, <3>3 DEF DecodedFrom
    <3> QED BY <1>1, <1>3, <3>4
  <2>2. \A j \in i .. Len(e) : j \in {i, i + 1, i + 2} \/ j \in i + 3 .. Len(e)
    BY <1>8
  <2>3. IsEscape(e, i)
    BY <1>3, <1>7 DEF IsEscape
  <2>4. \A j \in i .. Len(e) : e[j] = Percent => IsEscape(e, j)
    BY <1>3, <1>7, <1>10, <2>2, <2>3 DEF Encodes
  <2> QED BY <1>7, <1>9, <2>1, <2>4 DEF Encodes
<1> QED BY <1>7, <1>9, <1>10

LEMMA EncodesNothing ==
    ASSUME NEW e \in Seq(Chars), NEW f, Decoding(f, e, 1),
           NEW i \in 1 .. Len(e) + 1, SubSeq(e, i, Len(e)) = EncodeUri(<<>>)
    PROVE  Encodes(f, e, i, <<>>)
<1>1. EncodeUri(<<>>) = <<>>
  BY EncodedIs, EmptySeq
<1>2. Len(e) \in Nat /\ i \in Nat /\ i > Len(e)
  <2>1. Len(SubSeq(e, i, Len(e))) = 0
    BY <1>1
  <2> QED BY <2>1
<1>3. f[i] = <<>>
  <2>1. i \in 1 .. Len(e) + 3
    BY <1>2
  <2>2. f[i] = DecodedFrom(f, e, i)
    BY <2>1 DEF Decoding
  <2> QED BY <1>2, <2>2 DEF DecodedFrom
<1>4. \A j \in i .. Len(e) : FALSE
  BY <1>2
<1> QED BY <1>1, <1>3, <1>4 DEF Encodes

LEMMA UrlComesBack ==
    ASSUME NEW s \in Seq(Chars), Ascii(s)
    PROVE  IF Decodes(EncodeUri(s)) THEN Decoded(EncodeUri(s)) = s
                                    ELSE EncodeUri(s) = s
<1> DEFINE e == EncodeUri(s)
<1>1. e \in Seq(Chars) /\ Len(e) \in Nat /\ Len(s) \in Nat
  BY EncodedIs
<1> HIDE DEF e
<1>2. PICK f : Decoding(f, e, 1) /\ Decoded(e) = f[1]
  BY <1>1, DecodedIs
<1> DEFINE Goes(m) == \A u \in Seq(Chars), i \in 1 .. Len(e) + 1 :
                         Len(u) = m /\ Ascii(u) /\ SubSeq(e, i, Len(e)) = EncodeUri(u)
                           => Encodes(f, e, i, u)
           S == {m \in 0 .. Len(s) : Goes(m)}
<1>3. Goes(0)
  <2> SUFFICES ASSUME NEW u \in Seq(Chars), NEW i \in 1 .. Len(e) + 1, Len(u) = 0,
                      SubSeq(e, i, Len(e)) = EncodeUri(u)
               PROVE  Encodes(f, e, i, u)
    OBVIOUS
  <2>1. u = <<>>
    OBVIOUS
  <2> QED BY <1>1, <1>2, <2>1, EncodesNothing
<1>4. ASSUME NEW m \in 0 .. Len(s) - 1, Goes(m)
      PROVE  Goes(m + 1)
  <2> SUFFICES ASSUME NEW u \in Seq(Chars), NEW i \in 1 .. Len(e) + 1, Len(u) = m + 1,
                      Ascii(u), SubSeq(e, i, Len(e)) = EncodeUri(u)
               PROVE  Encodes(f, e, i, u)
    OBVIOUS
  <2>1. u /= <<>>
    OBVIOUS
  <2>2. Tail(u) \in Seq(Chars) /\ Len(Tail(u)) = m /\ Ascii(Tail(u))
    <3>1. Tail(u) \in Seq(Chars) /\ Len(Tail(u)) = Len(u) - 1 /\ Ascii(Tail(u))
      BY <2>1, FirstAndRest
    <3>2. (m + 1) - 1 = m
      OBVIOUS
    <3> QED BY <3>1, <3>2
  <2>3. \A j \in 1 .. Len(e) + 1 : SubSeq(e, j, Len(e)) = EncodeUri(Tail(u))
                                     => Encodes(f, e, j, Tail(u))
    BY <1>4, <2>2
  <2> HIDE DEF Goes
  <2>4. CASE u[1] \in Plain
    <3>1. /\ i + 1 \in 1 .. Len(e) + 1
          /\ SubSeq(e, i + 1, Len(e)) = EncodeUri(Tail(u))
          /\ Encodes(f, e, i + 1, Tail(u)) => Encodes(f, e, i, u)
      BY <1>1, <1>2, <2>1, <2>4, EncodesPlain
    <3> QED BY <2>3, <3>1
  <2>5. CASE u[1] \notin Plain
    <3>1. /\ i + 3 \in 1 .. Len(e) + 1
          /\ SubSeq(e, i + 3, Len(e)) = EncodeUri(Tail(u))
          /\ Encodes(f, e, i + 3, Tail(u)) => Encodes(f, e, i, u)
      BY <1>1, <1>2, <2>1, <2>5, EncodesEscape
    <3> QED BY <2>3, <3>1
  <2> QED BY <2>4, <2>5
<1>5. Goes(Len(s))
  <2> HIDE DEF Goes
  <2>1. 0 \in S /\ \A m \in 0 .. Len(s) - 1 : m \in S => m + 1 \in S
    <3>1. \A m \in 0 .. Len(s) - 1 : m + 1 \in 0 .. Len(s)
      BY <1>1
    <3>2. 0 \in 0 .. Len(s)
      BY <1>1
    <3> QED BY <1>3, <1>4, <3>1, <3>2
  <2> HIDE DEF S
  <2>2. \A m \in 0 .. Len(s) : m \in S
    BY <1>1, <2>1, CountingUp
  <2>3. Len(s) \in 0 .. Len(s)
    BY <1>1
  <2> QED BY <2>2, <2>3 DEF S
<1>6. Encodes(f, e, 1, s)
  <2>1. SubSeq(e, 1, Len(e)) = e /\ 1 \in 1 .. Len(e) + 1
    BY <1>1, SubSeqFull
  <2> QED BY <1>5, <2>1 DEF e
<1>7. Percents(e) = {i \in 1 .. Len(e) : e[i] = Percent}
  BY <1>1 DEF Percents
<1>8. CASE Decodes(e)
  BY <1>2, <1>6, <1>8 DEF Encodes, e
<1>9. CASE ~Decodes(e)
  <2>1. \A i \in Percents(e) : IsEscape(e, i)
    BY <1>6, <1>7 DEF Encodes
  <2>2. Percents(e) = {}
    BY <1>9, <2>1 DEF Decodes
  <2>3. EncodeUri(s) = s
    BY <1>6, <1>7, <2>2 DEF Encodes
  <2> QED BY <1>9, <2>3 DEF e
<1> QED BY <1>8, <1>9 DEF e

-----------------------------------------------------------------------------

UrlInv ==
    kind = "url" =>
        /\ original \in Seq(Chars)
        /\ job \in {"encode", "decode", "done"}
        /\ Ascii(original) =>
              /\ job \in {"encode", "done"} => text = original
              /\ job = "decode" => text \in {original, EncodeUri(original)}

TextInv == kind \in {"args", "any", "url"} /\ ArgvInv /\ UrlInv

LEMMA TextInvInit == TextInit => TextInv
<1> SUFFICES ASSUME TextInit PROVE TextInv
  OBVIOUS
<1>1. ASSUME NEW args \in ArgLists, NEW s \in CommandLines(args), TextStart("argv", s, args, "args")
      PROVE  TextInv
  <2>1. args \in Seq(Seq(Chars))
    BY TextAssumption
  <2>2. /\ job = "argv" /\ kind = "args" /\ aArgv = <<>> /\ original = args
        /\ currentState = "OutOfArg" /\ text = s
    BY <1>1 DEF TextStart
  <2>3. aArgv \in Seq(Seq(Chars)) /\ original = aArgv \o args
    BY <2>1, <2>2, ConcatEmptySeq, EmptySeq
  <2>4. Reads(args)
    BY <2>2 DEF Reads
  <2> QED BY <2>1, <2>2, <2>3, <2>4 DEF TextInv, ArgvInv, UrlInv
<1>2. ASSUME NEW s \in Texts, TextStart("argv", s, <<>>, "any")
      PROVE  TextInv
  BY <1>2 DEF TextStart, TextInv, ArgvInv, UrlInv
<1>3. ASSUME NEW s \in Urls, TextStart("encode", s, s, "url")
      PROVE  TextInv
  BY <1>3, TextAssumption DEF TextStart, TextInv, ArgvInv, UrlInv
<1> QED BY <1>1, <1>2, <1>3 DEF TextInit

LEMMA NoPercents ==
    ASSUME NEW s \in Seq(Chars), Ascii(s)
    PROVE  Percents(s) = {} /\ ~Decodes(s)
  BY DEF Percents, Ascii, Decodes

LEMMA TextInvKept == TextInv /\ [TextNext]_textVars => TextInv'
<1> SUFFICES ASSUME TextInv, [TextNext]_textVars PROVE TextInv'
  OBVIOUS
<1> USE DEF TextInv
<1>1. CASE ArgvStep \/ ArgvEnd
  <2>1. ArgvInv'
    BY <1>1, ArgvStepKeeps, ArgvEndKeeps
  <2>2. job = "argv" /\ UNCHANGED kind
    BY <1>1 DEF ArgvStep, ArgvEnd, ArgvReads, ArgvKeeps, ArgvQuote, ArgvBlank, ArgvEscape, ArgvOther
  <2>3. kind /= "url"
    BY <2>2 DEF UrlInv
  <2> QED BY <2>1, <2>2, <2>3 DEF UrlInv
<1>2. CASE EncodeUrl
  <2>1. /\ job = "encode" /\ job' = "decode" /\ UNCHANGED <<kind, original>>
        /\ text' = IF Percents(text) /= {} THEN text ELSE EncodeUri(text)
    BY <1>2 DEF EncodeUrl
  <2>2. kind /= "args"
    BY <2>1 DEF ArgvInv
  <2> QED BY <2>1, <2>2 DEF ArgvInv, UrlInv
<1>3. CASE DecodeOnce
  <2>1. /\ job = "decode" /\ UNCHANGED <<kind, original>>
        /\ IF Decodes(text) THEN text' = Decoded(text) /\ UNCHANGED job
                            ELSE job' = "done" /\ UNCHANGED text
    BY <1>3 DEF DecodeOnce
  <2>2. kind /= "args"
    BY <2>1 DEF ArgvInv
  <2>3. ASSUME kind = "url", Ascii(original)
        PROVE  IF Decodes(text) THEN text' = original ELSE text' = original /\ job' = "done"
    <3>1. original \in Seq(Chars) /\ text \in {original, EncodeUri(original)}
      BY <2>1, <2>3 DEF UrlInv
    <3>2. ~Decodes(original)
      BY <2>3, <3>1, NoPercents
    <3>3. CASE text = original
      BY <2>1, <3>2, <3>3
    <3>4. CASE text = EncodeUri(original)
      BY <2>1, <2>3, <3>1, <3>4, UrlComesBack
    <3> QED BY <3>1, <3>3, <3>4
  <2> QED BY <2>1, <2>2, <2>3 DEF ArgvInv, UrlInv
<1>4. CASE UNCHANGED textVars
  <2>1. UNCHANGED <<job, text, original, kind, currentState, currentQuoteChar, currentArg, aArgv,
                    result>>
    BY <1>4 DEF textVars
  <2> QED BY <2>1 DEF ArgvInv, UrlInv, Reads, InPlain, InQuotes
<1> QED BY <1>1, <1>2, <1>3, <1>4 DEF TextNext, ArgvStep

\* What was written comes back: the arguments of a command line from strToArgv, however
\* they were quoted, and an ASCII URL without a percent sign from encodeUrl and
\* decodeUrl, for texts of any length.
THEOREM TextsComeBack == TextSpec => []TextRoundTrip
<1>1. TextInv => TextRoundTrip
  BY DEF TextInv, ArgvInv, UrlInv, TextRoundTrip, ArgvRoundTrip, UrlRoundTrip, Ascii
<1> QED BY <1>1, TextInvInit, TextInvKept, PTL DEF TextSpec
=============================================================================
