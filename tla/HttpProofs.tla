------------------------------- MODULE HttpProofs -------------------------------
(***************************************************************************)
(* The two ends of HTTP.                                                   *)
(*                                                                         *)
(* The client, HttpDownloader: a download that reports success has left    *)
(* the whole file, a tail of the right length is there when it may be      *)
(* looked at, and a cancelled downloader is quiet, however often downloads *)
(* are started and cancelled.                                              *)
(*                                                                         *)
(* The server, BaseHttpHandler on a Socket: receiveLine returns the lines  *)
(* of the stream and receive what is behind them, the request is made of   *)
(* the whole header, and the response is whole, for every stream, every    *)
(* size of the chunks and every way the kernel cuts the stream.            *)
(***************************************************************************)
EXTENDS HttpDownloader, HttpHandler, SequenceTheorems, FiniteSetTheorems,
        WellFoundedInduction, TLAPS

-----------------------------------------------------------------------------
(* HttpDownloader                                                          *)

Transferring(d) == thread[d] \in {"head", "tail", "full"}

(* One thread at most transfers: the one the object knows, while the       *)
(* status is that of a download, so that none is started beside it.  The   *)
(* file position is where the tail begins exactly while the tail is        *)
(* fetched as a part.                                                      *)
OneTransfer ==
    \A d \in Downloads :
        /\ Transferring(d) => d = iDownloadThread /\ iStatus = "DOWNLOADING"
        /\ thread[d] = "tail" =>
              \/ tailRange = "part" /\ position = "tail"
              \/ tailRange = "all" /\ position = "start"
        /\ thread[d] = "full" => position = "start"

\* What comes before the whole file writes nothing beyond it, but a tail of
\* another length.
NothingBeyond ==
    \A d \in Downloads :
        thread[d] = "tail" \/ (thread[d] = "full" /\ tailFits) => file.beyond = "hole"

DownloaderInv ==
    TypeOK /\ OneTransfer /\ NothingBeyond /\ SuccessIsWhole /\ TailIsThere

LEMMA DownloaderInvInit == Init => DownloaderInv
<1> SUFFICES ASSUME Init PROVE DownloaderInv
  OBVIOUS
<1>1. thread \in [Downloads -> ThreadState] /\ \A d \in Downloads : thread[d] = "none"
  BY DEF Init, ThreadState
<1>2. file \in Files /\ started \in 0 .. MaxStarts
  BY StartsAssumption DEF Init, Part, Files, Empty
<1>3. TypeOK
  BY <1>1, <1>2 DEF Init, TypeOK, Status
<1> QED
  BY <1>1, <1>3 DEF Init, DownloaderInv, OneTransfer, Transferring, NothingBeyond, SuccessIsWhole,
                TailIsThere

LEMMA WrittenType ==
    ASSUME TypeOK, NEW where, NEW result, NEW f \in Written(where, result)
    PROVE  f \in Files
<1>1. file \in Files
  BY DEF TypeOK
<1>2. \A g \in Files, x \in Part, y \in {"hole", "other"} :
         /\ [g EXCEPT !.head = x] \in Files
         /\ [g EXCEPT !.tail = x] \in Files
         /\ [g EXCEPT !.head = x, !.tail = x] \in Files
         /\ [g EXCEPT !.tail = x, !.beyond = y] \in Files
  BY DEF Files, Part
<1>3. [head |-> "other", tail |-> "other", beyond |-> "other"] \in Files
  BY DEF Files, Part
<1>4. Overwritten \subseteq Files
  BY <1>1, <1>2 DEF Overwritten, Part
<1>5. CASE f \in {file, [file EXCEPT !.head = "body"], [file EXCEPT !.head = "other"]}
  BY <1>1, <1>2, <1>5 DEF Part
<1>6. CASE f \in {[file EXCEPT !.head = "body", !.tail = "body"], [file EXCEPT !.tail = "body"]}
  BY <1>1, <1>2, <1>6 DEF Part
<1>7. CASE f \in Overwritten \cup {[head |-> "other", tail |-> "other", beyond |-> "other"]}
  BY <1>3, <1>4, <1>7
<1> QED BY <1>5, <1>6, <1>7, Zenon DEF Written

LEMMA DownloaderInvStep == DownloaderInv /\ [Next]_vars => DownloaderInv'
<1> SUFFICES ASSUME DownloaderInv, [Next]_vars PROVE DownloaderInv'
  OBVIOUS
<1> USE StartsAssumption DEF DownloaderInv, TypeOK, OneTransfer, Transferring,
        NothingBeyond, SuccessIsWhole, TailIsThere, ThreadState, ThreadGoto, Downloads, ownerVars
<1>1. ASSUME NEW peek \in BOOLEAN, StartDownload(peek) PROVE DownloaderInv'
  BY <1>1 DEF StartDownload, NoDownloadRuns, isFinished, Status
<1>2. ASSUME NEW b \in BOOLEAN, CancelDownload(b) PROVE DownloaderInv'
  BY <1>2 DEF CancelDownload
<1>3. CASE CancelJoined
  BY <1>3 DEF CancelJoined
<1>4. ASSUME NEW d \in Downloads, HeadFails(d) PROVE DownloaderInv'
  BY <1>4 DEF HeadFails, Status
<1>5. ASSUME NEW d \in Downloads, NEW known \in BOOLEAN, HeadOk(d, known) PROVE DownloaderInv'
  BY <1>5 DEF HeadOk, Part, Files, Empty
<1>6. ASSUME NEW d \in Downloads, NEW r \in Results, NEW fits \in BOOLEAN, TailEnds(d, r, fits)
      PROVE  DownloaderInv'
  <2>1. TypeOK'
    <3>1. file' \in Files
      <4>1. Overwritten \subseteq Files
        BY DEF Overwritten, Files, Part
      <4> QED BY <1>6, <4>1, WrittenType DEF TailEnds
    <3> QED
      BY <1>6, <3>1 DEF TailEnds, PerformDownload, Results, Codes, INVALID, ERROR, Status
  <2>2. OneTransfer' /\ SuccessIsWhole'
    BY <1>6 DEF TailEnds
  <2>4. NothingBeyond'
    <3>1. thread'[d] = "full" /\ tailFits' => file'.beyond = file.beyond
      <4>1. CASE r = 206
        BY <1>6, <4>1 DEF TailEnds, Written, Ranged, Files
      <4>2. CASE r = 200 /\ tailRange = "all"
        <5>1. file' = [file EXCEPT !.head = "body", !.tail = "body"]
          BY <1>6, <4>2 DEF TailEnds, Written
        <5> QED BY <5>1 DEF Files
      <4>3. CASE ~PerformDownload(Ranged, r).ok
        BY <1>6, <4>3 DEF TailEnds
      <4> QED BY <1>6, <4>1, <4>2, <4>3 DEF TailEnds, PerformDownload, Ranged
    <3> QED BY <1>6, <3>1 DEF TailEnds
  \* To go on, a part has been fetched to where the tail is, or all to the start.
  \* Only a 206 may be of another length, and then nothing is claimed.
  <2>3. TailIsThere'
    <3>1. CASE tailRange = "part" /\ r = 206 /\ fits
      <4>1. file' = [file EXCEPT !.tail = "body"]
        BY <1>6, <3>1 DEF TailEnds, Written
      <4> QED BY <1>6, <3>1, <4>1 DEF TailEnds
    <3>2. CASE tailRange = "all" /\ r = 200 /\ fits
      <4>1. file' = [file EXCEPT !.head = "body", !.tail = "body"]
        BY <1>6, <3>2 DEF TailEnds, Written
      <4> QED BY <1>6, <3>2, <4>1 DEF TailEnds
    <3>3. CASE ~PerformDownload(Ranged, r).ok
      BY <1>6, <3>3 DEF TailEnds
    <3>4. CASE ~fits
      BY <1>6, <3>4 DEF TailEnds
    <3> QED
      BY <1>6, <3>1, <3>2, <3>3, <3>4 DEF TailEnds, PerformDownload, Ranged
  <2> QED BY <2>1, <2>2, <2>3, <2>4
<1>7. ASSUME NEW d \in Downloads, NEW r \in Results, FullEnds(d, r) PROVE DownloaderInv'
  <2>1. TypeOK'
    <3>1. file' \in Files
      BY <1>7, WrittenType DEF FullEnds
    <3>2. iResponseCode' \in Codes \cup {INVALID}
      BY <1>7 DEF FullEnds, PerformDownload
    <3>3. iStatus' \in {iStatus, "SUCCESS"}
      <4>1. r /= ABORTED
        BY DEF Results, Codes, ERROR, ABORTED
      <4>2. CASE r = 200
        <5>1. PerformDownload(FALSE, r).code = 200
          BY <4>2 DEF PerformDownload, Codes
        <5>2. PerformDownload(FALSE, r).code /= INVALID
          BY <4>2 DEF PerformDownload, Codes, INVALID
        <5>3. StatusAfter(r, PerformDownload(FALSE, r)) \in {iStatus, "SUCCESS"}
          BY <4>1, <5>1, <5>2 DEF StatusAfter
        <5> QED BY <1>7, <5>3 DEF FullEnds
      <4>3. CASE r /= 200
        <5>1. ~PerformDownload(FALSE, r).ok
          BY <4>3 DEF PerformDownload
        <5> QED BY <1>7, <4>1, <5>1 DEF FullEnds, StatusAfter
      <4> QED BY <4>2, <4>3
    <3> QED BY <1>7, <3>1, <3>2, <3>3 DEF FullEnds, Status
  <2>2. OneTransfer' /\ TailIsThere' /\ NothingBeyond'
    BY <1>7 DEF FullEnds
  <2>3. SuccessIsWhole'
    <3>1. CASE r = 200
      <4>1. file' = [file EXCEPT !.head = "body", !.tail = "body"] /\ tailFits' = tailFits
        BY <1>7, <3>1 DEF FullEnds, Written
      <4>2. tailFits => file.beyond = "hole"
        BY <1>7 DEF FullEnds
      <4> QED BY <4>1, <4>2 DEF Files
    <3>2. CASE r /= 200
      BY <1>7, <3>2
      DEF FullEnds, PerformDownload, StatusAfter, Results, Codes, ERROR, ABORTED
    <3> QED BY <3>1, <3>2
  <2> QED BY <2>1, <2>2, <2>3
<1>8. ASSUME NEW d \in Downloads, FullAborted(d) PROVE DownloaderInv'
  <2>1. TypeOK'
    <3>1. file' \in Files
      BY <1>8, WrittenType DEF FullAborted
    <3> QED
      BY <1>8, <3>1
      DEF FullAborted, PerformDownload, StatusAfter, Codes, INVALID, ABORTED, Status
  <2>2. OneTransfer' /\ NothingBeyond' /\ TailIsThere' /\ SuccessIsWhole'
    BY <1>8 DEF FullAborted, StatusAfter
  <2> QED BY <2>1, <2>2
<1>9. ASSUME NEW d \in Downloads, Finish(d) PROVE DownloaderInv'
  BY <1>9 DEF Finish
<1>10. CASE UNCHANGED vars BY <1>10 DEF vars
<1> QED
  BY <1>1, <1>2, <1>3, <1>4, <1>5, <1>6, <1>7, <1>8, <1>9, <1>10 DEF Next, HeadEnds

\* Success is the whole file, with nothing beyond it unless the server had sent more
\* than the tail; and a tail of the right length is there before the rest (doDownload).
THEOREM FileWhole == Spec => []FileIsWhole
<1>1. DownloaderInv => FileIsWhole BY DEF DownloaderInv, FileIsWhole
<1> QED BY <1>1, DownloaderInvInit, DownloaderInvStep, PTL DEF Spec

\* After cancelDownload no thread transfers any more; one that was let go may still be in
\* its finish callback.
THEOREM CancelledQuiet == Spec => []CancelledIsQuiet
<1>1. DownloaderInv => CancelledIsQuiet
  BY DEF DownloaderInv, OneTransfer, Transferring, CancelledIsQuiet, TypeOK, ThreadState, Downloads
<1> QED BY <1>1, DownloaderInvInit, DownloaderInvStep, PTL DEF Spec

\* Every variable of the downloader keeps its type.
THEOREM DownloaderTypes == Spec => []TypeOK
<1>1. DownloaderInv => TypeOK BY DEF DownloaderInv
<1> QED BY <1>1, DownloaderInvInit, DownloaderInvStep, PTL DEF Spec

-----------------------------------------------------------------------------
(* Numbers                                                                 *)

\* A set of numbers has a least one.
LEMMA MinIsLeast ==
    ASSUME NEW S \in SUBSET Nat, S /= {}
    PROVE  Min(S) \in S /\ \A x \in S : Min(S) <= x
<1> DEFINE R == OpToRel(<, Nat)
<1>1. IsWellFoundedOn(R, Nat) BY NatLessThanWellFounded
<1>2. PICK x \in S : \A y \in S : ~(<<y, x>> \in R)
  <2> HIDE DEF R
  <2> QED BY <1>1, WFMin
<1>3. \A y \in S : ~(y < x)
  BY <1>2 DEF OpToRel
<1>4. \A y \in S : x <= y
  BY <1>3
<1> QED BY <1>4 DEF Min

-----------------------------------------------------------------------------
(* The lines of a stream                                                   *)

LEMMA PairIs ==
    ASSUME NEW a, NEW b
    PROVE  {a, b} = Eol <=> (a = "CR" /\ b = "LF") \/ (a = "LF" /\ b = "CR")
  BY DEF Eol

\* A character is the second of a pair when it adjoins one that is not.
LEMMA SecondStep ==
    ASSUME NEW s, Len(s) \in Nat, NEW i \in 1 .. Len(s)
    PROVE  SecondOfPair(s, i) <=> Adjoins(s, i) /\ ~SecondOfPair(s, i - 1)
<1> DEFINE Run(start, j) == /\ start \in 1 .. j - 1
                            /\ ~Adjoins(s, start)
                            /\ \A k \in start + 1 .. j : Adjoins(s, k)
                            /\ (j - start) % 2 = 1
<1>1. \A j : SecondOfPair(s, j) <=> \E start : Run(start, j)
  BY DEF SecondOfPair
<1>2. ASSUME SecondOfPair(s, i)
      PROVE  Adjoins(s, i) /\ ~SecondOfPair(s, i - 1)
  <2>1. PICK start : Run(start, i)
    BY <1>1, <1>2
  <2>2. Adjoins(s, i)
    BY <2>1
  <2>3. ASSUME SecondOfPair(s, i - 1)
        PROVE  FALSE
    <3>1. PICK other : Run(other, i - 1)
      BY <1>1, <2>3
    <3>2. start \in Nat /\ other \in Nat /\ i \in Nat
      BY <2>1, <3>1
    <3>3. start /= other
      BY <2>1, <3>1, <3>2
    <3>4. ~(start < other)
      <4> SUFFICES ASSUME start < other PROVE FALSE OBVIOUS
      <4>1. other \in start + 1 .. i
        BY <3>1, <3>2
      <4> QED BY <2>1, <3>1, <4>1
    <3>5. ~(other < start)
      <4> SUFFICES ASSUME other < start PROVE FALSE OBVIOUS
      <4>1. start \in other + 1 .. i - 1
        BY <2>1, <3>2
      <4> QED BY <2>1, <3>1, <4>1
    <3> QED BY <3>2, <3>3, <3>4, <3>5
  <2> QED BY <2>2, <2>3
<1>3. ASSUME Adjoins(s, i), ~SecondOfPair(s, i - 1)
      PROVE  SecondOfPair(s, i)
  <2> DEFINE starts == {j \in 1 .. i - 1 : \A k \in j + 1 .. i : Adjoins(s, k)}
  <2>1. i - 1 \in starts /\ starts \in SUBSET Nat
    BY <1>3 DEF Adjoins
  <2>2. PICK j \in starts : \A k \in starts : j <= k
    BY <2>1, MinIsLeast
  <2>3. ~Adjoins(s, j)
    <3> SUFFICES ASSUME Adjoins(s, j) PROVE FALSE OBVIOUS
    <3>1. j - 1 \in 1 .. i - 1
      BY DEF Adjoins
    <3>2. \A k \in (j - 1) + 1 .. i : Adjoins(s, k)
      BY <3>1
    <3> QED BY <2>2, <3>1, <3>2
  <2>4. CASE (i - j) % 2 = 1
    BY <1>1, <2>3, <2>4
  <2>5. CASE (i - j) % 2 /= 1
    <3>1. (i - 1 - j) % 2 = 1 /\ j < i - 1
      BY <2>5
    <3>2. Run(j, i - 1)
      BY <2>3, <3>1
    <3> QED BY <1>1, <1>3, <3>2
  <2> QED BY <2>4, <2>5
<1> QED BY <1>2, <1>3

LEMMA EndsAre ==
    ASSUME NEW s, Len(s) \in Nat, NEW i
    PROVE  /\ IsFiniteSet(Ends(s)) /\ Cardinality(Ends(s)) \in Nat
           /\ EndsUpTo(s, i) \in SUBSET Ends(s)
           /\ IsFiniteSet(EndsUpTo(s, i))
           /\ Cardinality(EndsUpTo(s, i)) \in 0 .. Cardinality(Ends(s))
<1>1. IsFiniteSet(1 .. Len(s)) /\ Ends(s) \in SUBSET (1 .. Len(s))
  BY FS_Interval DEF Ends
<1>2. IsFiniteSet(Ends(s)) /\ EndsUpTo(s, i) \in SUBSET Ends(s)
  BY <1>1, FS_Subset DEF EndsUpTo
<1>3. IsFiniteSet(EndsUpTo(s, i)) /\ Cardinality(EndsUpTo(s, i)) <= Cardinality(Ends(s))
  BY <1>2, FS_Subset
<1> QED BY <1>2, <1>3, FS_CardinalityType

\* Each end is the one that its number in the order says.
LEMMA NthEnd ==
    ASSUME NEW s, Len(s) \in Nat, NEW end \in Ends(s)
    PROVE  /\ Cardinality(EndsUpTo(s, end)) \in 1 .. Cardinality(Ends(s))
           /\ LineEnds(s)[Cardinality(EndsUpTo(s, end))] = end
<1> DEFINE n == Cardinality(EndsUpTo(s, end))
<1>0. Ends(s) \subseteq Nat
  BY DEF Ends
<1>1. n \in 1 .. Cardinality(Ends(s))
  <2>1. EndsUpTo(s, end) /= {}
    BY <1>0 DEF EndsUpTo
  <2> QED BY <2>1, EndsAre, FS_EmptySet
<1>2. ASSUME NEW other \in Ends(s), Cardinality(EndsUpTo(s, other)) = n
      PROVE  other = end
  <2>1. CASE other < end
    <3>1. EndsUpTo(s, other) \in SUBSET EndsUpTo(s, end)
      BY <1>0, <2>1 DEF EndsUpTo
    <3>2. EndsUpTo(s, other) = EndsUpTo(s, end)
      BY <1>2, <3>1, EndsAre, FS_Subset
    <3> QED BY <1>0, <2>1, <3>2 DEF EndsUpTo
  <2>2. CASE end < other
    <3>1. EndsUpTo(s, end) \in SUBSET EndsUpTo(s, other)
      BY <1>0, <2>2 DEF EndsUpTo
    <3>2. EndsUpTo(s, other) = EndsUpTo(s, end)
      BY <1>2, <3>1, EndsAre, FS_Subset
    <3> QED BY <1>0, <2>2, <3>2 DEF EndsUpTo
  <2> QED BY <1>0, <2>1, <2>2
<1>3. LineEnds(s)[n] = CHOOSE i \in Ends(s) : Cardinality(EndsUpTo(s, i)) = n
  BY <1>1 DEF LineEnds
<1> QED BY <1>1, <1>2, <1>3

\* p is the first end behind the position c.
EndsNext(s, c, p) ==
    /\ Len(s) \in Nat /\ c \in 0 .. Len(s)
    /\ p \in Ends(s) /\ p > c
    /\ \A i \in c + 1 .. p - 1 : i \notin Ends(s)

LEMMA NextEnd ==
    ASSUME NEW s, NEW c, NEW p, EndsNext(s, c, p)
    PROVE  Cardinality(EndsUpTo(s, p)) = Cardinality(EndsUpTo(s, c)) + 1
<1> USE DEF EndsNext
<1>1. Ends(s) \subseteq Nat
  BY DEF Ends
<1>2. EndsUpTo(s, p) = EndsUpTo(s, c) \cup {p} /\ p \notin EndsUpTo(s, c)
  BY <1>1 DEF EndsUpTo
<1> QED BY <1>2, EndsAre, FS_AddElement

\* No end between two positions: the same ends up to both.
LEMMA NoEnd ==
    ASSUME NEW s, Len(s) \in Nat, NEW c \in 0 .. Len(s), NEW d \in c .. Len(s),
           \A i \in c + 1 .. d : i \notin Ends(s)
    PROVE  EndsUpTo(s, d) = EndsUpTo(s, c)
  BY DEF EndsUpTo, Ends

\* e is the last end up to c, or 0.
LastEnd(s, c, e) ==
    /\ e \in 0 .. c
    /\ e = 0 \/ e \in Ends(s)
    /\ \A i \in e + 1 .. c : i \notin Ends(s)

LEMMA LinesOfIs ==
    ASSUME NEW s, Len(s) \in Nat
    PROVE  /\ Len(LinesOf(s)) = Cardinality(Ends(s))
           /\ DOMAIN LinesOf(s) = 1 .. Cardinality(Ends(s))
           /\ \A k \in 1 .. Cardinality(Ends(s)) : LinesOf(s)[k] =
                 SubSeq(s, StartBehind(s, IF k = 1 THEN 0 ELSE LineEnds(s)[k - 1]),
                        LineEnds(s)[k] - 1)
<1> DEFINE n == Cardinality(Ends(s))
           Line(k) == SubSeq(s, StartBehind(s, IF k = 1 THEN 0 ELSE LineEnds(s)[k - 1]),
                             LineEnds(s)[k] - 1)
<1>1. n \in Nat /\ Len(LineEnds(s)) = n
  BY EndsAre DEF LineEnds
<1>2. LinesOf(s) = [k \in 1 .. n |-> Line(k)]
  BY <1>1, Zenon DEF LinesOf
<1> HIDE DEF n, Line
<1>3. Len(LinesOf(s)) = n /\ DOMAIN LinesOf(s) = 1 .. n
      /\ \A k \in 1 .. n : LinesOf(s)[k] = Line(k)
  BY <1>1, <1>2
<1> QED BY <1>3 DEF n, Line

\* The line between the last end up to c and the next one.
LEMMA NextLine ==
    ASSUME NEW s, NEW c, NEW p, EndsNext(s, c, p),
           NEW e, LastEnd(s, c, e),
           NEW n, n = Cardinality(EndsUpTo(s, c)) + 1
    PROVE  /\ n \in 1 .. Cardinality(Ends(s))
           /\ LinesOf(s)[n] = SubSeq(s, StartBehind(s, e), p - 1)
<1>0. Len(s) \in Nat /\ c \in 0 .. Len(s) /\ p \in Ends(s)
  BY DEF EndsNext
<1>1. n = Cardinality(EndsUpTo(s, p))
  BY NextEnd
<1>2. n \in 1 .. Cardinality(Ends(s)) /\ LineEnds(s)[n] = p
  BY <1>0, <1>1, NthEnd
<1>3. e \in Nat /\ e <= c /\ EndsUpTo(s, c) = EndsUpTo(s, e)
  BY <1>0, NoEnd DEF LastEnd
<1>4. e = (IF n = 1 THEN 0 ELSE LineEnds(s)[n - 1])
  <2>1. CASE e = 0
    <3>1. EndsUpTo(s, e) = {}
      BY <2>1 DEF EndsUpTo, Ends
    <3>2. Cardinality(EndsUpTo(s, c)) = 0
      BY <1>3, <3>1, FS_EmptySet
    <3> QED BY <2>1, <3>2
  <2>2. CASE e \in Ends(s)
    <3>1. Cardinality(EndsUpTo(s, e)) \in 1 .. Cardinality(Ends(s))
          /\ LineEnds(s)[Cardinality(EndsUpTo(s, e))] = e
      BY <1>0, <2>2, NthEnd
    <3>2. n - 1 = Cardinality(EndsUpTo(s, e))
      BY <1>3, <3>1
    <3> QED BY <3>1, <3>2
  <2> QED BY <2>1, <2>2 DEF LastEnd
<1> QED BY <1>0, <1>2, <1>4, LinesOfIs

-----------------------------------------------------------------------------
(* What extractLineFromInternalBuffer finds in the buffer, which holds the *)
(* stream from the position c to the position d                            *)

LEMMA SkippedIs ==
    ASSUME NEW s, Len(s) \in Nat, NEW c \in 0 .. Len(s) - 1,
           iInternalBuffer[1] = s[c + 1],
           iLastLineEndChar = IF c \in Ends(s) THEN s[c] ELSE "NUL"
    PROVE  Skipped = IF SecondOfPair(s, c + 1) THEN 1 ELSE 0
<1>1. CASE c \in Ends(s)
  <2>1. c \in 1 .. Len(s) /\ ~SecondOfPair(s, c)
    BY <1>1 DEF Ends
  <2>2. {iLastLineEndChar, iInternalBuffer[1]} = Eol <=> Adjoins(s, c + 1)
    BY <1>1, <2>1 DEF Adjoins
  <2>3. SecondOfPair(s, c + 1) <=> Adjoins(s, c + 1)
    BY <2>1, SecondStep
  <2> QED BY <2>2, <2>3 DEF Skipped
<1>2. CASE c \notin Ends(s)
  <2>1. {iLastLineEndChar, iInternalBuffer[1]} /= Eol
    BY <1>2, PairIs
  <2>2. ~SecondOfPair(s, c + 1)
    <3> SUFFICES ASSUME SecondOfPair(s, c + 1) PROVE FALSE OBVIOUS
    <3>1. Adjoins(s, c + 1) /\ ~SecondOfPair(s, c)
      BY SecondStep
    <3>2. c \in 1 .. Len(s) /\ s[c] \in Eol
      <4>1. c + 1 \in 2 .. Len(s) /\ {s[(c + 1) - 1], s[c + 1]} = Eol /\ (c + 1) - 1 = c
        BY <3>1 DEF Adjoins
      <4> QED BY <4>1
    <3> QED BY <1>2, <3>1, <3>2 DEF Ends
  <2> QED BY <2>1, <2>2 DEF Skipped
<1> QED BY <1>1, <1>2

LEMMA LineEndIs ==
    ASSUME NEW s, Len(s) \in Nat, NEW c \in 0 .. Len(s) - 1, NEW d \in c + 1 .. Len(s),
           Len(iInternalBuffer) = d - c,
           \A i \in 1 .. d - c : iInternalBuffer[i] = s[c + i],
           iLastLineEndChar = IF c \in Ends(s) THEN s[c] ELSE "NUL"
    PROVE  /\ Skipped \in {0, 1}
           /\ Skipped = IF SecondOfPair(s, c + 1) THEN 1 ELSE 0
           /\ LineEnd \in Skipped + 1 .. d - c + 1
           /\ \A i \in c + 1 .. c + LineEnd - 1 : i \notin Ends(s)
           /\ LineEnd <= d - c => c + LineEnd \in Ends(s) /\ iInternalBuffer[LineEnd] = s[c + LineEnd]
<1> DEFINE found == {i \in Skipped + 1 .. d - c : iInternalBuffer[i] \in Eol} \cup {d - c + 1}
<1>1. Skipped = IF SecondOfPair(s, c + 1) THEN 1 ELSE 0
  BY SkippedIs
<1>2. Skipped \in {0, 1} /\ Skipped \in Nat
  BY <1>1
<1> HIDE DEF found
<1>3. LineEnd = Min(found)
  BY DEF LineEnd, found
<1>4. found \in SUBSET Nat /\ found /= {}
  BY <1>2 DEF found
<1>5. LineEnd \in found /\ \A i \in found : LineEnd <= i
  BY <1>3, <1>4, MinIsLeast
<1>6. LineEnd \in Skipped + 1 .. d - c + 1
  BY <1>2, <1>5 DEF found
<1>7. ASSUME NEW i \in c + 1 .. c + LineEnd - 1
      PROVE  i \notin Ends(s)
  <2>1. CASE i = c + 1 /\ Skipped = 1
    BY <1>1, <2>1 DEF Ends
  <2>2. CASE ~(i = c + 1 /\ Skipped = 1)
    <3>1. i - c \in Skipped + 1 .. d - c /\ i - c < LineEnd
      BY <1>2, <1>6, <2>2
    <3>2. iInternalBuffer[i - c] \notin Eol
      BY <1>5, <1>6, <3>1 DEF found
    <3>3. iInternalBuffer[i - c] = s[i]
      BY <1>2, <3>1
    <3> QED BY <3>2, <3>3 DEF Ends
  <2> QED BY <2>1, <2>2
<1>8. ASSUME LineEnd <= d - c
      PROVE  c + LineEnd \in Ends(s) /\ iInternalBuffer[LineEnd] = s[c + LineEnd]
  <2> DEFINE p == c + LineEnd
  <2>1. LineEnd \in 1 .. d - c /\ iInternalBuffer[LineEnd] \in Eol
    BY <1>2, <1>5, <1>6, <1>8 DEF found
  <2>2. p \in 1 .. Len(s) /\ s[p] \in Eol /\ iInternalBuffer[LineEnd] = s[p]
    BY <2>1
  <2>3. ~SecondOfPair(s, p)
    <3> SUFFICES ASSUME SecondOfPair(s, p) PROVE FALSE OBVIOUS
    <3>1. Adjoins(s, p) /\ ~SecondOfPair(s, p - 1)
      BY <2>2, SecondStep
    <3>2. p - 1 \in 1 .. Len(s) /\ s[p - 1] \in Eol
      <4>1. p \in 2 .. Len(s) /\ {s[p - 1], s[p]} = Eol
        BY <3>1, Zenon DEF Adjoins
      <4>2. s[p - 1] = "CR" \/ s[p - 1] = "LF"
        BY <4>1, PairIs
      <4> QED BY <2>2, <4>1, <4>2 DEF Eol
    <3>3. p - 1 \in Ends(s)
      BY <3>1, <3>2 DEF Ends
    <3>4. p - 1 = c
      BY <1>7, <2>1, <3>3
    <3> QED BY <1>1, <1>6, <3>4
  <2> QED BY <2>2, <2>3 DEF Ends
<1> QED BY <1>1, <1>2, <1>6, <1>7, <1>8

-----------------------------------------------------------------------------
(* The invariant of the socket.  What receiveLine has cut off or put into  *)
(* its line ends at the position Consumed; behind it come what receive has *)
(* returned, the buffer, and what is still to come.                        *)

Chars == Range(stream) \cup {"NUL"}

Consumed == taken - Len(iInternalBuffer) - Len(body)

SocketTypes ==
    /\ stream \in Seq(Chars)
    /\ taken \in 0 .. Len(stream)
    /\ iInternalBuffer \in Seq(Chars)
    /\ aLine \in Seq(Chars)
    /\ body \in Seq(Chars)
    /\ lines \in Seq(Seq(Chars))
    /\ reading \in {"idle", "extract", "receive", "got", "failed"}
    /\ silent \in BOOLEAN

\* The lines returned are the first of the stream, as many as end before Consumed.
LinesInv ==
    /\ Len(lines) <= Cardinality(Ends(stream))
    /\ \A k \in 1 .. Len(lines) : lines[k] = LinesOf(stream)[k]
    /\ reading = "got" => lines /= <<>> /\ aLine = lines[Len(lines)]
    /\ reading = "failed" /\ ~silent => Len(lines) = Cardinality(Ends(stream))

PlaceInv ==
    reading /= "failed" =>
        /\ Consumed \in 0 .. Len(stream)
        /\ body = SubSeq(stream, Consumed + 1, Consumed + Len(body))
        /\ iInternalBuffer = SubSeq(stream, Consumed + Len(body) + 1, taken)
        /\ Len(lines) = Cardinality(EndsUpTo(stream, Consumed))
        /\ iLastLineEndChar = IF Consumed \in Ends(stream) THEN stream[Consumed] ELSE "NUL"
        /\ reading \in {"idle", "extract", "receive"} => body = <<>>
        /\ reading \in {"idle", "got"} => LastEnd(stream, Consumed, Consumed)
        /\ reading \in {"extract", "receive"} =>
              \E e : /\ LastEnd(stream, Consumed, e)
                     /\ aLine = SubSeq(stream, StartBehind(stream, e), Consumed)
        /\ reading = "receive" => iInternalBuffer = <<>>

SocketInv == SocketTypes /\ LinesInv /\ PlaceInv

LEMMA ReadKept ==
    ASSUME SocketInv, UNCHANGED readVars
    PROVE  SocketInv'
  BY DEF SocketInv, readVars, SocketTypes, Chars, LinesInv, PlaceInv, Consumed

LEMMA SocketTypesAre ==
    ASSUME SocketInv
    PROVE  /\ Len(stream) \in Nat /\ taken \in Nat /\ taken <= Len(stream)
           /\ Len(iInternalBuffer) \in Nat /\ Len(body) \in Nat /\ Len(lines) \in Nat
           /\ Len(aLine) \in Nat
           /\ Cardinality(Ends(stream)) \in Nat
           /\ \A i \in 1 .. Len(stream) : stream[i] \in Chars
<1>1. SocketTypes
  BY DEF SocketInv
<1>2. Len(stream) \in Nat
  BY <1>1, LenProperties DEF SocketTypes
<1>3. \A i \in 1 .. Len(stream) : stream[i] \in Chars
  BY <1>1, ElementOfSeq DEF SocketTypes
<1>4. taken \in Nat /\ taken <= Len(stream)
  BY <1>1, <1>2 DEF SocketTypes
<1>5. Len(iInternalBuffer) \in Nat /\ Len(body) \in Nat /\ Len(aLine) \in Nat
  BY <1>1, LenProperties DEF SocketTypes
<1>6. Len(lines) \in Nat
  BY <1>1, LenProperties DEF SocketTypes
<1> QED BY <1>2, <1>3, <1>4, <1>5, <1>6, EndsAre

LEMMA SocketInvStart ==
    ASSUME NEW s, s \in Seq(Range(s)), SocketStart(s)
    PROVE  SocketInv
<1>1. SocketTypes
  <2>1. stream \in Seq(Chars)
    BY SeqMonotonic, Zenon DEF SocketStart, Chars
  <2>2. Len(stream) \in Nat
    BY <2>1, LenProperties
  <2>3. <<>> \in Seq(Chars) /\ <<>> \in Seq(Seq(Chars))
    BY EmptySeq
  <2>4. taken = 0 /\ taken \in 0 .. Len(stream)
    BY <2>2 DEF SocketStart
  <2>5. /\ iInternalBuffer = <<>> /\ aLine = <<>> /\ body = <<>> /\ lines = <<>>
        /\ reading = "idle" /\ silent = FALSE
    BY DEF SocketStart
  <2> QED BY <2>1, <2>3, <2>4, <2>5 DEF SocketTypes
<1>2. Len(stream) \in Nat
  BY <1>1, LenProperties DEF SocketTypes
<1>3. Cardinality(EndsUpTo(stream, 0)) = 0 /\ 0 \notin Ends(stream)
  <2>1. EndsUpTo(stream, 0) = {} /\ 0 \notin Ends(stream)
    BY <1>2 DEF EndsUpTo, Ends
  <2> QED BY <2>1, FS_EmptySet
<1>4. LinesInv
  BY <1>2, EndsAre DEF SocketStart, LinesInv
<1>5. Consumed = 0 /\ Len(body) = 0 /\ Len(lines) = 0
  <2>1. taken = 0 /\ iInternalBuffer = <<>> /\ body = <<>> /\ lines = <<>>
    BY DEF SocketStart
  <2>2. Len(iInternalBuffer) = 0 /\ Len(body) = 0 /\ Len(lines) = 0
    BY <2>1, EmptySeq
  <2>3. Consumed = taken - Len(iInternalBuffer) - Len(body)
    BY DEF Consumed
  <2>4. Consumed = 0 - 0 - 0
    BY <2>1, <2>2, <2>3
  <2> QED BY <2>2, <2>4
<1>6. body = SubSeq(stream, 1, 0) /\ iInternalBuffer = SubSeq(stream, 1, 0)
  BY SubSeqEmpty DEF SocketStart
<1>7. PlaceInv
  BY <1>2, <1>3, <1>5, <1>6 DEF SocketStart, PlaceInv, LastEnd
<1> QED BY <1>1, <1>4, <1>7 DEF SocketInv

\* A call begins only while receive has taken nothing.
LEMMA ReceiveLineKeeps ==
    ASSUME SocketInv, ReceiveLine, body = <<>>
    PROVE  SocketInv'
<1>1. SocketTypes'
  BY EmptySeq DEF SocketInv, SocketTypes, Chars, ReceiveLine
<1>2. Consumed' = Consumed /\ LinesInv'
  BY DEF ReceiveLine, Consumed, SocketInv, LinesInv
<1>3. aLine' = SubSeq(stream, StartBehind(stream, Consumed), Consumed)
  <2>1. Consumed \in Int
    BY DEF ReceiveLine, SocketInv, PlaceInv
  <2>2. StartBehind(stream, Consumed) \in Int /\ Consumed < StartBehind(stream, Consumed)
    BY <2>1 DEF StartBehind
  <2> QED BY <2>1, <2>2, SubSeqEmpty DEF ReceiveLine
<1>4. PlaceInv'
  BY <1>2, <1>3 DEF ReceiveLine, PlaceInv, SocketInv
<1> QED BY <1>1, <1>2, <1>4 DEF SocketInv

LEMMA ExtractNothingKeeps == SocketInv /\ ExtractNothing => SocketInv'
  BY DEF SocketInv, ExtractNothing, SocketTypes, Chars, LinesInv, PlaceInv, Consumed

LEMMA ReceiveChunkKeeps == SocketInv /\ ReceiveChunk => SocketInv'
<1> SUFFICES ASSUME SocketInv, ReceiveChunk PROVE SocketInv'
  OBVIOUS
<1> DEFINE room == Min({READ_LINE_CHUNCK_SIZE, Len(stream) - taken})
<1>1. PICK n \in 1 .. room : /\ iInternalBuffer' = SubSeq(stream, taken + 1, taken + n)
                             /\ taken' = taken + n
  BY DEF ReceiveChunk
<1>2. n \in Nat \ {0} /\ taken + n <= Len(stream)
  <2>1. {READ_LINE_CHUNCK_SIZE, Len(stream) - taken} \in SUBSET Nat
    BY SocketAssumption, SocketTypesAre
  <2>2. room \in Nat /\ room <= Len(stream) - taken
    BY <2>1, MinIsLeast
  <2> HIDE DEF room
  <2> QED BY <1>1, <2>2, SocketTypesAre
<1>3. iInternalBuffer' \in Seq(Chars) /\ Len(iInternalBuffer') = n
  <2>1. \A i \in taken + 1 .. taken + n : stream[i] \in Chars
    BY <1>2, SocketTypesAre
  <2>2. taken + 1 \in Int /\ taken + n \in Int /\ taken \in Nat
    BY <1>2, SocketTypesAre
  <2>3. SubSeq(stream, taken + 1, taken + n) \in Seq(Chars)
        /\ Len(SubSeq(stream, taken + 1, taken + n)) =
              IF taken + 1 <= taken + n THEN taken + n - (taken + 1) + 1 ELSE 0
    BY <2>1, <2>2, SubSeqProperties
  <2> QED BY <1>1, <1>2, <2>2, <2>3
<1>4. /\ iInternalBuffer = <<>> /\ body = <<>> /\ Len(iInternalBuffer) = 0 /\ Len(body) = 0
      /\ Consumed = taken
  BY EmptySeq, SocketTypesAre DEF SocketInv, PlaceInv, ReceiveChunk, Consumed
<1>5. Consumed' = Consumed
  BY <1>1, <1>2, <1>3, <1>4, SocketTypesAre DEF Consumed, ReceiveChunk
<1>6. SocketTypes'
  BY <1>1, <1>2, <1>3, SocketTypesAre DEF SocketInv, SocketTypes, Chars, ReceiveChunk
<1>7. LinesInv'
  BY DEF SocketInv, LinesInv, ReceiveChunk
<1>8. PlaceInv'
  <2>1. iInternalBuffer' = SubSeq(stream, Consumed + Len(body) + 1, taken')
    <3>1. Consumed + Len(body) + 1 = taken + 1
      BY <1>4, SocketTypesAre
    <3> QED BY <1>1, <3>1
  <2>2. UNCHANGED <<stream, iLastLineEndChar, aLine, lines, body>> /\ reading' = "extract"
    BY DEF ReceiveChunk
  <2> QED BY <1>4, <1>5, <2>1, <2>2 DEF SocketInv, PlaceInv, ReceiveChunk
<1> QED BY <1>6, <1>7, <1>8 DEF SocketInv

LEMMA ReceiveNothingKeeps == SocketInv /\ ReceiveNothing => SocketInv'
<1> SUFFICES ASSUME SocketInv, ReceiveNothing PROVE SocketInv'
  OBVIOUS
<1>1. SocketTypes'
  <2>1. iInternalBuffer' \in Seq(Chars)
    BY SocketAssumption DEF ReceiveNothing, Chars
  <2> QED BY <2>1, SocketTypesAre DEF SocketInv, SocketTypes, Chars, ReceiveNothing
<1>2. ASSUME ~silent' PROVE Len(lines) = Cardinality(Ends(stream))
  <2>1. taken = Len(stream)
    <3>1. ~(taken < Len(stream))
      BY <1>2, Zenon DEF ReceiveNothing
    <3> QED BY <3>1, SocketTypesAre
  <2>2. Consumed = taken
    BY EmptySeq, SocketTypesAre DEF SocketInv, PlaceInv, ReceiveNothing, Consumed
  <2>3. EndsUpTo(stream, Consumed) = Ends(stream)
    BY <2>1, <2>2, SocketTypesAre DEF EndsUpTo, Ends
  <2> QED BY <2>3 DEF SocketInv, PlaceInv, ReceiveNothing
<1>3. LinesInv'
  BY <1>2 DEF SocketInv, LinesInv, ReceiveNothing
<1>4. PlaceInv'
  BY DEF PlaceInv, ReceiveNothing
<1> QED BY <1>1, <1>3, <1>4 DEF SocketInv

\* A piece of a piece of a sequence, which may be empty.
LEMMA PieceOfPiece ==
    ASSUME NEW S, NEW s \in Seq(S), NEW c \in Nat, NEW d \in c .. Len(s),
           NEW m \in Nat \ {0}, NEW n \in Int, n <= d - c
    PROVE  SubSeq(SubSeq(s, c + 1, d), m, n) = SubSeq(s, c + m, c + n)
<1>1. Len(s) \in Nat
  BY LenProperties
<1>2. CASE n < m
  BY <1>2, SubSeqEmpty
<1>3. CASE m <= n
  <2>1. c + 1 \in 1 .. Len(s) /\ d \in 1 .. Len(s)
        /\ m \in 1 .. d - (c + 1) + 1 /\ n \in 1 .. d - (c + 1) + 1
    BY <1>1, <1>3
  <2>2. SubSeq(SubSeq(s, c + 1, d), m, n) = SubSeq(s, (c + 1) + m - 1, (c + 1) + n - 1)
    BY <2>1, SubSeqOfSubSeq
  <2> QED BY <2>2
<1> QED BY <1>2, <1>3

LEMMA PieceIs ==
    ASSUME NEW S, NEW s \in Seq(S), NEW c \in Nat, NEW d \in c .. Len(s)
    PROVE  /\ SubSeq(s, c + 1, d) \in Seq(S)
           /\ Len(SubSeq(s, c + 1, d)) = d - c
           /\ \A i \in 1 .. d - c : SubSeq(s, c + 1, d)[i] = s[c + i]
<1>1. Len(s) \in Nat /\ \A i \in c + 1 .. d : s[i] \in S
  BY LenProperties, ElementOfSeq
<1>2. c + 1 \in Int /\ d \in Int
  BY <1>1
<1>3. /\ SubSeq(s, c + 1, d) \in Seq(S)
      /\ Len(SubSeq(s, c + 1, d)) = IF c + 1 <= d THEN d - (c + 1) + 1 ELSE 0
      /\ \A i \in 1 .. d - (c + 1) + 1 : SubSeq(s, c + 1, d)[i] = s[(c + 1) + i - 1]
  BY <1>1, <1>2, SubSeqProperties
<1> QED BY <1>1, <1>3

\* The line as far as it has come, and the rest of it up to p, behind what is skipped.
LEMMA LineGoesOn ==
    ASSUME NEW S, NEW s \in Seq(S), NEW c \in 0 .. Len(s) - 1, NEW p \in c .. Len(s),
           NEW e, LastEnd(s, c, e), NEW skipped,
           skipped = IF SecondOfPair(s, c + 1) THEN 1 ELSE 0,
           skipped <= p - c
    PROVE  SubSeq(s, StartBehind(s, e), c) \o SubSeq(s, c + skipped + 1, p)
              = SubSeq(s, StartBehind(s, e), p)
<1>0. Len(s) \in Nat /\ c \in Nat /\ e \in Nat /\ e <= c
  BY LenProperties DEF LastEnd
<1>1. CASE SecondOfPair(s, c + 1)
  <2>1. Adjoins(s, c + 1) /\ ~SecondOfPair(s, c)
    BY <1>0, <1>1, SecondStep
  <2>2. c + 1 \in 2 .. Len(s) /\ {s[(c + 1) - 1], s[c + 1]} = Eol /\ (c + 1) - 1 = c
    BY <1>0, <2>1 DEF Adjoins
  <2>3. c \in Ends(s)
    BY <1>0, <2>1, <2>2 DEF Ends
  <2>4. e = c
    BY <1>0, <2>3 DEF LastEnd
  <2>5. StartBehind(s, e) = c + 2 /\ skipped = 1
    BY <1>1, <2>4 DEF StartBehind
  <2>6. SubSeq(s, c + 2, c) = <<>>
    BY <1>0, SubSeqEmpty
  <2>7. SubSeq(s, c + 2, p) \in Seq(S)
    <3>1. \A i \in c + 2 .. p : s[i] \in S
      BY <1>0, ElementOfSeq
    <3>2. c + 2 \in Int /\ p \in Int
      BY <1>0
    <3> QED BY <3>1, <3>2, SubSeqProperties
  <2> QED BY <1>0, <2>5, <2>6, <2>7, ConcatEmptySeq
<1>2. CASE ~SecondOfPair(s, c + 1)
  <2>1. StartBehind(s, e) \in 1 .. c + 1
    BY <1>0, <1>2 DEF StartBehind
  <2>2. c \in StartBehind(s, e) - 1 .. Len(s) /\ StartBehind(s, e) \in 1 .. Len(s) + 1
    BY <1>0, <2>1
  <2>3. SubSeq(s, StartBehind(s, e), c) \o SubSeq(s, c + 1, p) = SubSeq(s, StartBehind(s, e), p)
    BY <2>2, ConcatAdjacentSubSeq
  <2>4. skipped = 0 /\ c + skipped + 1 = c + 1
    BY <1>0, <1>2
  <2> QED BY <2>3, <2>4
<1> QED BY <1>1, <1>2

\* A buffer holds the stream from behind the position c up to d; e is the last end
\* of a line up to c, and the line that follows, or the buffer, ends before c + cut.
Cuts(S, s, c, d, e, skipped, cut) ==
    /\ s \in Seq(S) /\ c \in Nat /\ d \in Nat /\ c < d /\ d <= Len(s)
    /\ LastEnd(s, c, e)
    /\ skipped \in {0, 1}
    /\ skipped = IF SecondOfPair(s, c + 1) THEN 1 ELSE 0
    /\ cut \in Nat /\ skipped + 1 <= cut /\ cut <= d - c + 1

\* What is cut off, and what stays in the buffer.
CutOff(S, s, c, d, e, skipped, cut) ==
    /\ SubSeq(s, StartBehind(s, e), c) \o SubSeq(SubSeq(s, c + 1, d), skipped + 1, cut - 1)
          = SubSeq(s, StartBehind(s, e), c + cut - 1)
    /\ SubSeq(s, StartBehind(s, e), c + cut - 1) \in Seq(S)
    /\ SubSeq(SubSeq(s, c + 1, d), cut + 1, d - c) = SubSeq(s, c + cut + 1, d)

LEMMA CutIs ==
    ASSUME NEW S, NEW s, NEW c, NEW d, NEW e, NEW skipped, NEW cut,
           Cuts(S, s, c, d, e, skipped, cut)
    PROVE  CutOff(S, s, c, d, e, skipped, cut)
<1> USE DEF Cuts
<1>0. Len(s) \in Nat
  BY LenProperties
<1>1. d \in c .. Len(s) /\ c \in 0 .. Len(s) - 1
  BY <1>0
<1>2. SubSeq(SubSeq(s, c + 1, d), skipped + 1, cut - 1)
         = SubSeq(s, c + (skipped + 1), c + (cut - 1))
  <2>1. skipped + 1 \in Nat \ {0} /\ cut - 1 \in Int /\ cut - 1 <= d - c
    OBVIOUS
  <2> QED BY <1>1, <2>1, PieceOfPiece
<1>3. c + (skipped + 1) = c + skipped + 1 /\ c + (cut - 1) = c + cut - 1
  OBVIOUS
<1>4. c + cut - 1 \in c .. Len(s) /\ skipped <= (c + cut - 1) - c
  BY <1>0
<1>5. SubSeq(s, StartBehind(s, e), c) \o SubSeq(s, c + skipped + 1, c + cut - 1)
        = SubSeq(s, StartBehind(s, e), c + cut - 1)
  BY <1>1, <1>4, LineGoesOn
<1>6. SubSeq(s, StartBehind(s, e), c + cut - 1) \in Seq(S)
  <2>1. e \in Nat /\ c + cut - 1 <= Len(s)
    BY <1>4 DEF LastEnd
  <2>2. StartBehind(s, e) \in Nat \ {0}
    BY <2>1 DEF StartBehind
  <2>3. StartBehind(s, e) \in Int /\ c + cut - 1 \in Int
    BY <2>2
  <2>4. \A i \in StartBehind(s, e) .. c + cut - 1 : s[i] \in S
    BY <1>0, <2>1, <2>2, ElementOfSeq
  <2> QED BY <2>3, <2>4, SubSeqProperties
<1>7. SubSeq(SubSeq(s, c + 1, d), cut + 1, d - c) = SubSeq(s, c + (cut + 1), c + (d - c))
  <2>1. cut + 1 \in Nat \ {0} /\ d - c \in Int /\ d - c <= d - c
    OBVIOUS
  <2> QED BY <1>1, <2>1, PieceOfPiece
<1>8. c + (cut + 1) = c + cut + 1 /\ c + (d - c) = d
  OBVIOUS
<1>9. SubSeq(SubSeq(s, c + 1, d), skipped + 1, cut - 1) = SubSeq(s, c + skipped + 1, c + cut - 1)
  BY <1>2, <1>3
<1>10. SubSeq(SubSeq(s, c + 1, d), cut + 1, d - c) = SubSeq(s, c + cut + 1, d)
  BY <1>7, <1>8
<1> QED BY <1>5, <1>6, <1>9, <1>10 DEF CutOff

LEMMA CutLeaves ==
    ASSUME NEW S, NEW s \in Seq(S), NEW p \in Nat, NEW d \in Nat, p <= d, d <= Len(s)
    PROVE  /\ SubSeq(s, p + 1, d) \in Seq(S)
           /\ Len(SubSeq(s, p + 1, d)) = d - p
<1>1. d \in p .. Len(s)
  BY LenProperties
<1> QED BY <1>1, PieceIs

LEMMA PieceAtStart ==
    ASSUME NEW S, NEW s \in Seq(S), NEW d \in Nat, d <= Len(s)
    PROVE  SubSeq(s, 1, d) \in Seq(S) /\ Len(SubSeq(s, 1, d)) = d
<1>1. 0 \in Nat /\ 0 <= d /\ 0 + 1 = 1 /\ d - 0 = d
  OBVIOUS
<1>2. SubSeq(s, 0 + 1, d) \in Seq(S) /\ Len(SubSeq(s, 0 + 1, d)) = d - 0
  BY <1>1, CutLeaves
<1> QED BY <1>1, <1>2

\* What extractLineFromInternalBuffer starts from.
LEMMA ExtractFrom ==
    ASSUME SocketInv, ExtractLine
    PROVE  /\ stream \in Seq(Chars) /\ Len(stream) \in Nat
           /\ body = <<>> /\ Len(body) = 0
           /\ Consumed \in Nat /\ taken \in Nat /\ Consumed < taken /\ taken <= Len(stream)
           /\ Len(iInternalBuffer) = taken - Consumed
           /\ iInternalBuffer = SubSeq(stream, Consumed + 1, taken)
           /\ iLastLineEndChar = IF Consumed \in Ends(stream) THEN stream[Consumed] ELSE "NUL"
           /\ Len(lines) = Cardinality(EndsUpTo(stream, Consumed))
           /\ Len(lines) \in Nat
<1>1. body = <<>>
  BY DEF SocketInv, PlaceInv, ExtractLine
<1>2. Len(body) = 0
  BY <1>1
<1>3. /\ stream \in Seq(Chars) /\ Len(stream) \in Nat /\ taken \in Nat /\ taken <= Len(stream)
      /\ Len(lines) \in Nat /\ Len(iInternalBuffer) \in Nat
  BY SocketTypesAre DEF SocketInv, SocketTypes
<1>4. Len(iInternalBuffer) /= 0
  BY EmptySeq DEF SocketInv, SocketTypes, ExtractLine
<1>5. /\ Consumed \in 0 .. Len(stream)
      /\ iInternalBuffer = SubSeq(stream, Consumed + Len(body) + 1, taken)
      /\ Len(lines) = Cardinality(EndsUpTo(stream, Consumed))
      /\ iLastLineEndChar = IF Consumed \in Ends(stream) THEN stream[Consumed] ELSE "NUL"
  BY DEF SocketInv, PlaceInv, ExtractLine
<1>6. Consumed = taken - Len(iInternalBuffer) - Len(body)
  BY DEF Consumed
<1>7. Consumed \in Nat
  BY <1>3, <1>5
<1>8. Consumed < taken /\ Len(iInternalBuffer) = taken - Consumed
      /\ Consumed + Len(body) + 1 = Consumed + 1
  BY <1>2, <1>3, <1>4, <1>6, <1>7
<1> QED BY <1>1, <1>2, <1>3, <1>5, <1>7, <1>8

\* What it looks for, and what it does.
LEMMA ExtractTo ==
    ASSUME SocketInv, ExtractLine
    PROVE  /\ LineEnd \in Nat /\ LineEnd <= taken - Consumed + 1
           /\ \A i \in Consumed + 1 .. Consumed + LineEnd - 1 : i \notin Ends(stream)
           /\ LineEnd <= taken - Consumed =>
                 /\ Consumed + LineEnd \in Ends(stream)
                 /\ iLastLineEndChar' = stream[Consumed + LineEnd]
           /\ LineEnd > taken - Consumed =>
                 /\ Consumed + LineEnd - 1 \notin Ends(stream)
                 /\ iLastLineEndChar' = "NUL"
           /\ LineEnd \in Nat \ {0}
           /\ aLine' \in Seq(Chars)
           /\ \E e : /\ LastEnd(stream, Consumed, e)
                     /\ aLine' = SubSeq(stream, StartBehind(stream, e), Consumed + LineEnd - 1)
           /\ iInternalBuffer' = SubSeq(stream, Consumed + LineEnd + 1, taken)
           /\ LineEnd > taken - Consumed => LineEnd > 1
<1> DEFINE s == stream  c == Consumed  d == taken
<1>1. /\ s \in Seq(Chars) /\ Len(s) \in Nat /\ c \in Nat /\ d \in Nat /\ c < d /\ d <= Len(s)
      /\ Len(iInternalBuffer) = d - c /\ iInternalBuffer = SubSeq(s, c + 1, d)
      /\ iLastLineEndChar = IF c \in Ends(s) THEN s[c] ELSE "NUL"
  BY ExtractFrom
<1>2. PICK e : LastEnd(s, c, e) /\ aLine = SubSeq(s, StartBehind(s, e), c)
  BY DEF SocketInv, PlaceInv, ExtractLine
<1>3. /\ aLine' = aLine \o SubSeq(iInternalBuffer, Skipped + 1, LineEnd - 1)
      /\ iLastLineEndChar' = IF LineEnd <= Len(iInternalBuffer)
                               THEN iInternalBuffer[LineEnd] ELSE "NUL"
      /\ iInternalBuffer' = SubSeq(iInternalBuffer, LineEnd + 1, Len(iInternalBuffer))
  BY DEF ExtractLine
<1> HIDE DEF s, c, d
<1>4. d \in c .. Len(s) /\ d \in c + 1 .. Len(s) /\ c \in 0 .. Len(s) - 1
  BY <1>1
<1>5. \A i \in 1 .. d - c : iInternalBuffer[i] = s[c + i]
  BY <1>1, <1>4, PieceIs
<1>6. /\ Skipped \in {0, 1}
      /\ Skipped = IF SecondOfPair(s, c + 1) THEN 1 ELSE 0
      /\ LineEnd \in Skipped + 1 .. d - c + 1
      /\ \A i \in c + 1 .. c + LineEnd - 1 : i \notin Ends(s)
      /\ LineEnd <= d - c => c + LineEnd \in Ends(s) /\ iInternalBuffer[LineEnd] = s[c + LineEnd]
  BY <1>1, <1>4, <1>5, LineEndIs
<1>7. LineEnd \in Nat \ {0} /\ Skipped + 1 <= LineEnd /\ LineEnd <= d - c + 1
  BY <1>1, <1>6
<1>8. /\ SubSeq(s, StartBehind(s, e), c) \o SubSeq(SubSeq(s, c + 1, d), Skipped + 1, LineEnd - 1)
            = SubSeq(s, StartBehind(s, e), c + LineEnd - 1)
      /\ SubSeq(s, StartBehind(s, e), c + LineEnd - 1) \in Seq(Chars)
      /\ SubSeq(SubSeq(s, c + 1, d), LineEnd + 1, d - c) = SubSeq(s, c + LineEnd + 1, d)
  <2>1. Cuts(Chars, s, c, d, e, Skipped, LineEnd)
    BY <1>1, <1>2, <1>6, <1>7 DEF Cuts
  <2>2. CutOff(Chars, s, c, d, e, Skipped, LineEnd)
    BY <2>1, CutIs
  <2> QED BY <2>2 DEF CutOff
<1>9. aLine' = SubSeq(s, StartBehind(s, e), c + LineEnd - 1)
  BY <1>1, <1>2, <1>3, <1>8
<1>10. iInternalBuffer' = SubSeq(s, c + LineEnd + 1, d)
  BY <1>1, <1>3, <1>8
<1>11. LineEnd <= d - c => iLastLineEndChar' = s[c + LineEnd]
  BY <1>1, <1>3, <1>6
<1>12. ASSUME LineEnd > d - c
       PROVE  LineEnd > 1 /\ c + LineEnd - 1 \notin Ends(s) /\ iLastLineEndChar' = "NUL"
  <2>1. ~(LineEnd <= Len(iInternalBuffer)) /\ LineEnd > 1
    BY <1>1, <1>7, <1>12
  <2>2. c + LineEnd - 1 \in c + 1 .. c + LineEnd - 1
    BY <1>1, <1>7, <2>1
  <2> QED BY <1>3, <1>6, <2>1, <2>2
<1> QED BY <1>2, <1>6, <1>7, <1>8, <1>9, <1>10, <1>11, <1>12 DEF s, c, d

LEMMA ExtractEndKeeps ==
    ASSUME SocketInv, ExtractLine, LineEnd <= Len(iInternalBuffer)
    PROVE  SocketInv'
<1> DEFINE p == Consumed + LineEnd
<1>0. SocketInv /\ ExtractLine
  OBVIOUS
<1>1. /\ stream \in Seq(Chars) /\ Len(stream) \in Nat
      /\ body = <<>> /\ Len(body) = 0
      /\ Consumed \in Nat /\ taken \in Nat /\ Consumed < taken /\ taken <= Len(stream)
      /\ Len(iInternalBuffer) = taken - Consumed
      /\ Len(lines) = Cardinality(EndsUpTo(stream, Consumed))
      /\ Len(lines) \in Nat
  BY ExtractFrom
<1>2. LineEnd \in Nat \ {0} /\ LineEnd <= taken - Consumed
  BY <1>1, ExtractTo
<1>3. /\ \A i \in Consumed + 1 .. p - 1 : i \notin Ends(stream)
      /\ p \in Ends(stream) /\ iLastLineEndChar' = stream[p]
      /\ aLine' \in Seq(Chars)
      /\ iInternalBuffer' = SubSeq(stream, p + 1, taken)
  <2>1. /\ \A i \in Consumed + 1 .. Consumed + LineEnd - 1 : i \notin Ends(stream)
        /\ Consumed + LineEnd \in Ends(stream)
        /\ iLastLineEndChar' = stream[Consumed + LineEnd]
        /\ aLine' \in Seq(Chars)
        /\ iInternalBuffer' = SubSeq(stream, Consumed + LineEnd + 1, taken)
    BY <1>2, ExtractTo, Zenon
  <2> QED BY <1>1, <1>2, <2>1
<1>4. PICK e : /\ LastEnd(stream, Consumed, e)
               /\ aLine' = SubSeq(stream, StartBehind(stream, e), p - 1)
  <2>1. PICK e : /\ LastEnd(stream, Consumed, e)
                 /\ aLine' = SubSeq(stream, StartBehind(stream, e), Consumed + LineEnd - 1)
    BY ExtractTo, Zenon
  <2>2. Consumed + LineEnd - 1 = p - 1
    BY <1>1, <1>2
  <2> QED BY <2>1, <2>2
<1>5. /\ reading' = "got" /\ lines' = Append(lines, aLine')
      /\ UNCHANGED <<stream, taken, body, silent>>
  BY DEF ExtractLine
<1>6. p \in Nat /\ p > Consumed /\ p <= taken /\ p \in 0 .. Len(stream)
      /\ Consumed \in 0 .. Len(stream)
  BY <1>1, <1>2
<1> HIDE DEF p
<1>7. iInternalBuffer' \in Seq(Chars) /\ Len(iInternalBuffer') = taken - p
  BY <1>1, <1>3, <1>6, CutLeaves
<1>8. /\ lines \in Seq(Seq(Chars)) /\ \A k \in 1 .. Len(lines) : lines[k] = LinesOf(stream)[k]
  BY <1>0 DEF SocketInv, SocketTypes, LinesInv
<1>9. /\ lines' \in Seq(Seq(Chars))
      /\ Len(lines') = Len(lines) + 1
      /\ \A k \in 1 .. Len(lines) : lines'[k] = lines[k]
      /\ lines'[Len(lines) + 1] = aLine'
  BY <1>3, <1>5, <1>8, AppendProperties
<1>10. Cardinality(EndsUpTo(stream, p)) = Len(lines')
  <2>1. EndsNext(stream, Consumed, p)
    BY <1>1, <1>3, <1>6 DEF EndsNext
  <2> QED BY <1>1, <1>9, <2>1, NextEnd
<1>11. /\ Len(lines) + 1 \in 1 .. Cardinality(Ends(stream))
       /\ LinesOf(stream)[Len(lines) + 1] = SubSeq(stream, StartBehind(stream, e), p - 1)
  <2>1. EndsNext(stream, Consumed, p)
    BY <1>1, <1>3, <1>6 DEF EndsNext
  <2>2. Len(lines) + 1 = Cardinality(EndsUpTo(stream, Consumed)) + 1
    BY <1>1
  <2> QED BY <1>4, <2>1, <2>2, NextLine
<1>12. Len(body') = 0 /\ taken' = taken /\ stream' = stream /\ body' = <<>>
  BY <1>1, <1>5
<1>13. Consumed' = p
  <2>1. Consumed' = taken' - Len(iInternalBuffer') - Len(body')
    BY DEF Consumed
  <2> QED BY <1>1, <1>6, <1>7, <1>12, <2>1
<1>14. SocketTypes'
  <2>1. Chars' = Chars
    BY <1>12 DEF Chars
  <2>2. taken' \in 0 .. Len(stream') /\ body' \in Seq(Chars) /\ silent' \in BOOLEAN
    BY <1>0, <1>5 DEF SocketInv, SocketTypes
  <2> QED BY <1>1, <1>3, <1>5, <1>7, <1>9, <1>12, <2>1, <2>2 DEF SocketTypes
<1>15. LinesInv'
  <2>1. Len(lines') <= Cardinality(Ends(stream'))
    BY <1>1, <1>9, <1>11, <1>12, EndsAre
  <2>2. ASSUME NEW k \in 1 .. Len(lines') PROVE lines'[k] = LinesOf(stream')[k]
    <3>1. CASE k \in 1 .. Len(lines)
      BY <1>8, <1>9, <1>12, <3>1
    <3>2. CASE k = Len(lines) + 1
      BY <1>4, <1>9, <1>11, <1>12, <3>2
    <3> QED BY <1>1, <1>9, <3>1, <3>2
  <2>3. lines' /= <<>> /\ aLine' = lines'[Len(lines')]
    <3>1. Len(lines') /= 0
      BY <1>1, <1>9
    <3> QED BY <1>9, <3>1
  <2> QED BY <1>5, <2>1, <2>2, <2>3 DEF LinesInv
<1>16. PlaceInv'
  <2>1. Consumed' \in 0 .. Len(stream') /\ LastEnd(stream', Consumed', Consumed')
    <3>1. \A i \in p + 1 .. p : i \notin Ends(stream)
      BY <1>6
    <3>2. p \in 0 .. p
      BY <1>6
    <3> QED BY <1>3, <1>6, <1>12, <1>13, <3>1, <3>2 DEF LastEnd
  <2>2. body' = SubSeq(stream', Consumed' + 1, Consumed' + Len(body'))
    <3>1. p + Len(body') = p
      BY <1>6, <1>12
    <3>2. SubSeq(stream, p + 1, p) = <<>>
      BY <1>1, <1>6, SubSeqEmpty
    <3> QED BY <1>12, <1>13, <3>1, <3>2
  <2>3. iInternalBuffer' = SubSeq(stream', Consumed' + Len(body') + 1, taken')
    <3>1. p + Len(body') + 1 = p + 1
      BY <1>6, <1>12
    <3> QED BY <1>3, <1>12, <1>13, <3>1
  <2>4. Len(lines') = Cardinality(EndsUpTo(stream', Consumed'))
    BY <1>10, <1>12, <1>13
  <2>5. iLastLineEndChar' = IF Consumed' \in Ends(stream') THEN stream'[Consumed'] ELSE "NUL"
    BY <1>3, <1>12, <1>13
  <2> QED BY <1>5, <2>1, <2>2, <2>3, <2>4, <2>5 DEF PlaceInv
<1> QED BY <1>14, <1>15, <1>16 DEF SocketInv

LEMMA ExtractAllKeeps ==
    ASSUME SocketInv, ExtractLine, ~(LineEnd <= Len(iInternalBuffer))
    PROVE  SocketInv'
<1>0. SocketInv /\ ExtractLine
  OBVIOUS
<1>1. /\ stream \in Seq(Chars) /\ Len(stream) \in Nat
      /\ body = <<>> /\ Len(body) = 0
      /\ Consumed \in Nat /\ taken \in Nat /\ Consumed < taken /\ taken <= Len(stream)
      /\ Len(iInternalBuffer) = taken - Consumed
      /\ Len(lines) = Cardinality(EndsUpTo(stream, Consumed))
      /\ Len(lines) \in Nat
  BY ExtractFrom
<1>2. LineEnd \in Nat /\ LineEnd <= taken - Consumed + 1
  BY ExtractTo
<1>3. LineEnd > taken - Consumed /\ Consumed + LineEnd - 1 = taken
      /\ Consumed + LineEnd + 1 = taken + 2
  BY <1>1, <1>2
<1>4. /\ \A i \in Consumed + 1 .. taken : i \notin Ends(stream)
      /\ iLastLineEndChar' = "NUL"
      /\ taken \notin Ends(stream)
      /\ aLine' \in Seq(Chars)
      /\ iInternalBuffer' = SubSeq(stream, taken + 2, taken)
  BY <1>3, ExtractTo
<1>5. PICK e : /\ LastEnd(stream, Consumed, e)
               /\ aLine' = SubSeq(stream, StartBehind(stream, e), taken)
  BY <1>3, ExtractTo
<1>6. /\ reading' = "receive" /\ lines' = lines
      /\ UNCHANGED <<stream, taken, body, silent>>
  BY DEF ExtractLine
<1>7. iInternalBuffer' = <<>>
  BY <1>1, <1>4, SubSeqEmpty
<1>8. Len(iInternalBuffer') = 0 /\ Len(body') = 0 /\ taken' = taken /\ stream' = stream
      /\ body' = <<>>
  BY <1>1, <1>6, <1>7
<1>9. Consumed' = taken
  <2>1. Consumed' = taken' - Len(iInternalBuffer') - Len(body')
    BY DEF Consumed
  <2> QED BY <1>1, <1>8, <2>1
<1>10. SocketTypes'
  <2>1. Chars' = Chars
    BY <1>8 DEF Chars
  <2>2. iInternalBuffer' \in Seq(Chars)
    BY <1>7, EmptySeq
  <2>3. taken' \in 0 .. Len(stream') /\ body' \in Seq(Chars) /\ silent' \in BOOLEAN
        /\ lines' \in Seq(Seq(Chars))
    BY <1>0, <1>6 DEF SocketInv, SocketTypes
  <2> QED BY <1>1, <1>4, <1>6, <1>8, <2>1, <2>2, <2>3 DEF SocketTypes
<1>11. LinesInv'
  BY <1>0, <1>6 DEF SocketInv, LinesInv
<1>12. PlaceInv'
  <2>1. Consumed' \in 0 .. Len(stream') /\ Consumed \in 0 .. Len(stream)
        /\ taken \in Consumed .. Len(stream)
    BY <1>1, <1>8, <1>9
  <2>2. body' = SubSeq(stream', Consumed' + 1, Consumed' + Len(body'))
    <3>1. taken + Len(body') = taken
      BY <1>1, <1>8
    <3>2. SubSeq(stream, taken + 1, taken) = <<>>
      BY <1>1, SubSeqEmpty
    <3> QED BY <1>8, <1>9, <3>1, <3>2
  <2>3. iInternalBuffer' = SubSeq(stream', Consumed' + Len(body') + 1, taken')
    <3>1. taken + Len(body') + 1 = taken + 1
      BY <1>1, <1>8
    <3>2. SubSeq(stream, taken + 1, taken) = <<>>
      BY <1>1, SubSeqEmpty
    <3> QED BY <1>7, <1>8, <1>9, <3>1, <3>2
  <2>4. EndsUpTo(stream, taken) = EndsUpTo(stream, Consumed)
    BY <1>1, <1>4, <2>1, NoEnd
  <2>5. LastEnd(stream, taken, e)
    <3>1. e \in 0 .. Consumed /\ (e = 0 \/ e \in Ends(stream))
          /\ \A i \in e + 1 .. Consumed : i \notin Ends(stream)
      BY <1>5 DEF LastEnd
    <3>2. ASSUME NEW i \in e + 1 .. taken PROVE i \notin Ends(stream)
      <4>1. i \in e + 1 .. Consumed \/ i \in Consumed + 1 .. taken
        BY <1>1, <3>1
      <4> QED BY <1>4, <3>1, <4>1
    <3>3. e \in 0 .. taken
      BY <1>1, <3>1
    <3> QED BY <3>1, <3>2, <3>3 DEF LastEnd
  <2> QED BY <1>1, <1>4, <1>5, <1>6, <1>7, <1>8, <1>9, <2>1, <2>2, <2>3, <2>4, <2>5
          DEF PlaceInv
<1> QED BY <1>10, <1>11, <1>12 DEF SocketInv

LEMMA ExtractLineKeeps == SocketInv /\ ExtractLine => SocketInv'
  BY ExtractEndKeeps, ExtractAllKeeps

\* Pieces of a sequence that follow on each other.
LEMMA PiecesJoin ==
    ASSUME NEW S, NEW s \in Seq(S), NEW x \in Nat, NEW y \in Nat, NEW z \in Nat,
           x <= y, y <= z, z <= Len(s)
    PROVE  SubSeq(s, x + 1, y) \o SubSeq(s, y + 1, z) = SubSeq(s, x + 1, z)
<1>1. Len(s) \in Nat
  BY LenProperties
<1>2. x + 1 \in 1 .. Len(s) + 1 /\ y \in (x + 1) - 1 .. Len(s) /\ z \in y .. Len(s)
  BY <1>1
<1> QED BY <1>2, ConcatAdjacentSubSeq

\* Behind the position c come what receive has returned, up to b, and the buffer, up to
\* t; receive copies k of it, and n come from the socket if this empties the buffer.
Receives(S, s, c, b, t, k, n) ==
    /\ s \in Seq(S) /\ c \in Nat /\ b \in Nat /\ t \in Nat /\ k \in Nat /\ n \in Nat
    /\ c <= b /\ b + k <= t /\ t + n <= Len(s)
    /\ n = 0 \/ b + k = t

Received(S, s, c, b, t, k, n) ==
    /\ SubSeq(s, c + 1, b) \o SubSeq(SubSeq(s, b + 1, t), 1, k) \o SubSeq(s, t + 1, t + n)
          = SubSeq(s, c + 1, b + k + n)
    /\ SubSeq(SubSeq(s, b + 1, t), k + 1, t - b) = SubSeq(s, b + k + n + 1, t + n)

LEMMA ReceivedIs ==
    ASSUME NEW S, NEW s, NEW c, NEW b, NEW t, NEW k, NEW n, Receives(S, s, c, b, t, k, n)
    PROVE  Received(S, s, c, b, t, k, n)
<1>0. /\ s \in Seq(S) /\ c \in Nat /\ b \in Nat /\ t \in Nat /\ k \in Nat /\ n \in Nat
      /\ c <= b /\ b + k <= t /\ t + n <= Len(s)
      /\ n = 0 \/ b + k = t
  BY DEF Receives
<1>1. Len(s) \in Nat
  BY <1>0, LenProperties
<1>2. t \in b .. Len(s)
  BY <1>0, <1>1
<1>3. SubSeq(SubSeq(s, b + 1, t), 1, k) = SubSeq(s, b + 1, b + k)
  <2>1. 1 \in Nat \ {0} /\ k \in Int /\ k <= t - b
    BY <1>0
  <2> QED BY <1>0, <1>2, <2>1, PieceOfPiece
<1>4. SubSeq(s, c + 1, b) \o SubSeq(s, b + 1, b + k) = SubSeq(s, c + 1, b + k)
  <2>1. b + k \in Nat /\ b <= b + k /\ b + k <= Len(s)
    BY <1>0, <1>1
  <2> QED BY <1>0, <2>1, PiecesJoin
<1>5. SubSeq(SubSeq(s, b + 1, t), k + 1, t - b) = SubSeq(s, b + (k + 1), b + (t - b))
  <2>1. k + 1 \in Nat \ {0} /\ t - b \in Int /\ t - b <= t - b
    BY <1>0
  <2> QED BY <1>0, <1>2, <2>1, PieceOfPiece
<1>6. b + (k + 1) = b + k + 1 /\ b + (t - b) = t
  BY <1>0
<1>7. SubSeq(s, c + 1, b + k) \o SubSeq(s, t + 1, t + n) = SubSeq(s, c + 1, b + k + n)
  <2>1. CASE b + k = t
    <3>1. t + n \in Nat /\ t <= t + n /\ c <= t
      BY <1>0, <1>1
    <3>2. SubSeq(s, c + 1, t) \o SubSeq(s, t + 1, t + n) = SubSeq(s, c + 1, t + n)
      BY <1>0, <3>1, PiecesJoin
    <3>3. b + k + n = t + n
      BY <2>1
    <3> QED BY <2>1, <3>2, <3>3
  <2>2. CASE n = 0
    <3>1. t + n = t /\ b + k + n = b + k
      BY <1>0, <2>2
    <3>2. SubSeq(s, t + 1, t + n) = <<>>
      BY <1>0, <3>1, SubSeqEmpty
    <3>3. c + 1 \in Int /\ b + k \in Int /\ \A i \in c + 1 .. b + k : s[i] \in S
      BY <1>0, <1>1, ElementOfSeq
    <3>4. SubSeq(s, c + 1, b + k) \in Seq(S)
      BY <3>3, SubSeqProperties
    <3> QED BY <3>1, <3>2, <3>4, ConcatEmptySeq
  <2> QED BY <1>0, <2>1, <2>2
<1>8. SubSeq(s, b + k + 1, t) = SubSeq(s, b + k + n + 1, t + n)
  <2>1. CASE n = 0
    <3>1. b + k + n = b + k /\ t + n = t
      BY <1>0, <2>1
    <3> QED BY <3>1
  <2>2. CASE b + k = t
    <3>1. t + 1 > t /\ t + n + 1 > t + n /\ t + 1 \in Int /\ t + n + 1 \in Int
      BY <1>0
    <3>2. SubSeq(s, t + 1, t) = <<>> /\ SubSeq(s, t + n + 1, t + n) = <<>>
      BY <1>0, <3>1, SubSeqEmpty
    <3> QED BY <2>2, <3>2
  <2> QED BY <1>0, <2>1, <2>2
<1>9. SubSeq(s, c + 1, b) \o SubSeq(SubSeq(s, b + 1, t), 1, k) \o SubSeq(s, t + 1, t + n)
         = SubSeq(s, c + 1, b + k + n)
  BY <1>3, <1>4, <1>7
<1>10. SubSeq(SubSeq(s, b + 1, t), k + 1, t - b) = SubSeq(s, b + k + n + 1, t + n)
  BY <1>5, <1>6, <1>8
<1> QED BY <1>9, <1>10 DEF Received

\* receive is called when receiveLine has returned.
LEMMA ReceiveKeeps ==
    ASSUME SocketInv, NEW size \in Nat, Receive(size), reading \in {"got", "failed"}
    PROVE  SocketInv'
<1> DEFINE copied == Min({size, Len(iInternalBuffer)})
           room == Min({size - copied, Len(stream) - taken})
<1>0. /\ SocketInv
      /\ stream \in Seq(Chars) /\ iInternalBuffer \in Seq(Chars) /\ body \in Seq(Chars)
      /\ Len(stream) \in Nat /\ taken \in Nat /\ taken <= Len(stream)
      /\ Len(iInternalBuffer) \in Nat /\ Len(body) \in Nat
  BY SocketTypesAre DEF SocketInv, SocketTypes
<1>1. PICK n \in 0 .. room :
         /\ body' = body \o SubSeq(iInternalBuffer, 1, copied) \o SubSeq(stream, taken + 1, taken + n)
         /\ taken' = taken + n
         /\ iInternalBuffer' = SubSeq(iInternalBuffer, copied + 1, Len(iInternalBuffer))
  BY DEF Receive
<1>2. UNCHANGED <<stream, iLastLineEndChar, aLine, reading, lines, silent>>
  BY DEF Receive
<1>3. /\ copied \in Nat /\ copied <= Len(iInternalBuffer) /\ copied <= size
      /\ copied = size \/ copied = Len(iInternalBuffer)
  <2>1. {size, Len(iInternalBuffer)} \in SUBSET Nat
    BY <1>0
  <2> QED BY <2>1, MinIsLeast
<1> HIDE DEF copied
<1>4. n \in Nat /\ taken + n <= Len(stream) /\ (n = 0 \/ copied = Len(iInternalBuffer))
  <2>1. {size - copied, Len(stream) - taken} \in SUBSET Nat
    BY <1>0, <1>3
  <2>2. room \in Nat /\ room <= Len(stream) - taken /\ room <= size - copied
    BY <2>1, MinIsLeast
  <2> HIDE DEF room
  <2>3. n \in Nat /\ n <= Len(stream) - taken /\ n <= size - copied
    BY <1>0, <1>1, <1>3, <2>2
  <2> QED BY <1>0, <1>3, <2>3
<1> HIDE DEF room
<1>5. /\ SubSeq(iInternalBuffer, 1, copied) \in Seq(Chars)
      /\ Len(SubSeq(iInternalBuffer, 1, copied)) = copied
  BY <1>0, <1>3, PieceAtStart
<1>6. /\ SubSeq(stream, taken + 1, taken + n) \in Seq(Chars)
      /\ Len(SubSeq(stream, taken + 1, taken + n)) = n
  <2>1. taken + n \in Nat /\ taken <= taken + n /\ (taken + n) - taken = n
    BY <1>0, <1>4
  <2> QED BY <1>0, <1>4, <2>1, CutLeaves
<1>7. /\ iInternalBuffer' \in Seq(Chars)
      /\ Len(iInternalBuffer') = Len(iInternalBuffer) - copied
  BY <1>0, <1>1, <1>3, CutLeaves
<1>8. /\ body' \in Seq(Chars)
      /\ Len(body') = Len(body) + copied + n
  <2>1. /\ body \o SubSeq(iInternalBuffer, 1, copied) \in Seq(Chars)
        /\ Len(body \o SubSeq(iInternalBuffer, 1, copied)) = Len(body) + copied
    BY <1>0, <1>5, ConcatProperties
  <2> QED BY <1>1, <1>6, <2>1, ConcatProperties
<1>9. SocketTypes'
  <2>1. Chars' = Chars
    BY <1>2 DEF Chars
  <2>2. taken' \in 0 .. Len(stream')
    BY <1>0, <1>1, <1>2, <1>4
  <2> QED BY <1>0, <1>2, <1>7, <1>8, <2>1, <2>2 DEF SocketInv, SocketTypes
<1>10. LinesInv'
  BY <1>0, <1>2 DEF SocketInv, LinesInv
<1>11. Consumed' = Consumed
  <2>1. Consumed' = taken' - Len(iInternalBuffer') - Len(body')
        /\ Consumed = taken - Len(iInternalBuffer) - Len(body)
    BY DEF Consumed
  <2> QED BY <1>0, <1>1, <1>3, <1>4, <1>7, <1>8, <2>1
<1>12. CASE reading = "got"
  <2> DEFINE c == Consumed  b == Consumed + Len(body)
  <2>1. /\ c \in 0 .. Len(stream)
        /\ body = SubSeq(stream, c + 1, b)
        /\ iInternalBuffer = SubSeq(stream, b + 1, taken)
    BY <1>0, <1>12 DEF SocketInv, PlaceInv
  <2>2. c = taken - Len(iInternalBuffer) - Len(body)
    BY DEF Consumed
  <2>3. /\ c \in Nat /\ b \in Nat /\ c <= b /\ b = c + Len(body)
        /\ Len(iInternalBuffer) = taken - b /\ b <= taken
    BY <1>0, <2>1, <2>2
  <2> HIDE DEF c, b
  <2>4. Receives(Chars, stream, c, b, taken, copied, n)
    BY <1>0, <1>3, <1>4, <2>3 DEF Receives
  <2>5. Received(Chars, stream, c, b, taken, copied, n)
    BY <2>4, ReceivedIs
  <2>6. /\ body' = SubSeq(stream, c + 1, b + copied + n)
        /\ iInternalBuffer' = SubSeq(stream, b + copied + n + 1, taken + n)
    BY <1>1, <2>1, <2>3, <2>5 DEF Received
  <2>7. b + copied + n = c + Len(body')
    BY <1>3, <1>4, <1>8, <2>3, <1>0
  <2>8. Consumed' = c
    BY <1>11 DEF c
  <2>9. /\ body' = SubSeq(stream', Consumed' + 1, Consumed' + Len(body'))
        /\ iInternalBuffer' = SubSeq(stream', Consumed' + Len(body') + 1, taken')
    BY <1>1, <1>2, <2>6, <2>7, <2>8
  <2>10. /\ Consumed \in 0 .. Len(stream)
         /\ Len(lines) = Cardinality(EndsUpTo(stream, Consumed))
         /\ iLastLineEndChar = IF Consumed \in Ends(stream) THEN stream[Consumed] ELSE "NUL"
         /\ LastEnd(stream, Consumed, Consumed)
    BY <1>0, <1>12 DEF SocketInv, PlaceInv
  <2>11. reading' = "got"
    BY <1>2, <1>12
  <2>12. PlaceInv'
    BY <1>2, <1>11, <2>9, <2>10, <2>11 DEF PlaceInv
  <2> QED BY <1>9, <1>10, <2>12 DEF SocketInv
<1>13. CASE reading = "failed"
  <2>1. PlaceInv'
    BY <1>2, <1>13 DEF PlaceInv
  <2> QED BY <1>9, <1>10, <2>1 DEF SocketInv
<1> QED BY <1>12, <1>13

-----------------------------------------------------------------------------
(* What the invariant says                                                 *)

LEMMA PrefixIs ==
    ASSUME NEW a, NEW b, Len(a) \in Nat, Len(a) <= Len(b),
           \A k \in 1 .. Len(a) : a[k] = b[k]
    PROVE  IsPrefix(a, b)
  BY DEF IsPrefix

LEMMA SocketInvSays == SocketInv => LinesAreTheStream
<1> SUFFICES ASSUME SocketInv PROVE LinesAreTheStream
  OBVIOUS
<1>1. IsPrefix(lines, LinesOf(stream))
  <2>1. Len(lines) \in Nat /\ Len(stream) \in Nat
    BY SocketTypesAre
  <2>2. Len(lines) <= Len(LinesOf(stream)) /\ \A k \in 1 .. Len(lines) : lines[k] = LinesOf(stream)[k]
    BY <2>1, LinesOfIs DEF SocketInv, LinesInv
  <2> QED BY <2>1, <2>2, PrefixIs
<1>2. ASSUME reading = "got"
      PROVE  IsPrefix(SubSeq(stream, 1, LineEnds(stream)[Len(lines)]) \o body, stream)
  <2> DEFINE c == Consumed  b == Consumed + Len(body)
  <2>1. /\ stream \in Seq(Chars) /\ Len(stream) \in Nat /\ Len(body) \in Nat /\ Len(lines) \in Nat
        /\ lines \in Seq(Seq(Chars)) /\ taken \in Nat /\ taken <= Len(stream)
        /\ Len(iInternalBuffer) \in Nat
    BY SocketTypesAre DEF SocketInv, SocketTypes
  <2>2. /\ c \in 0 .. Len(stream) /\ body = SubSeq(stream, c + 1, b)
        /\ Len(lines) = Cardinality(EndsUpTo(stream, c))
        /\ LastEnd(stream, c, c) /\ lines /= <<>>
        /\ c = taken - Len(iInternalBuffer) - Len(body)
    BY <1>2 DEF SocketInv, PlaceInv, LinesInv, Consumed
  <2>3. c \in Nat /\ b \in Nat /\ c <= b /\ b <= Len(stream)
    BY <2>1, <2>2
  <2> HIDE DEF c, b
  <2>4. c /= 0
    <3>1. Len(lines) /= 0
      BY <2>1, <2>2, EmptySeq
    <3>2. EndsUpTo(stream, 0) = {}
      BY <2>1 DEF EndsUpTo, Ends
    <3> QED BY <2>2, <3>1, <3>2, FS_EmptySet
  <2>5. c \in Ends(stream)
    BY <2>2, <2>4 DEF LastEnd
  <2>6. LineEnds(stream)[Len(lines)] = c
    BY <2>1, <2>2, <2>5, NthEnd
  <2>7. SubSeq(stream, 0 + 1, c) \o SubSeq(stream, c + 1, b) = SubSeq(stream, 0 + 1, b)
    BY <2>1, <2>3, PiecesJoin
  <2>8. /\ Len(SubSeq(stream, 0 + 1, b)) = b - 0
        /\ \A i \in 1 .. b - 0 : SubSeq(stream, 0 + 1, b)[i] = stream[0 + i]
    <3>1. b \in 0 .. Len(stream)
      BY <2>1, <2>3
    <3> QED BY <2>1, <3>1, PieceIs
  <2>9. b - 0 = b /\ 0 + 1 = 1 /\ \A i \in 1 .. b : 0 + i = i
    BY <2>3
  <2>10. /\ Len(SubSeq(stream, 1, b)) = b
         /\ \A i \in 1 .. b : SubSeq(stream, 1, b)[i] = stream[i]
    BY <2>8, <2>9
  <2>11. IsPrefix(SubSeq(stream, 1, b), stream)
    BY <2>3, <2>10, PrefixIs
  <2> QED BY <2>2, <2>6, <2>7, <2>9, <2>11
<1> QED BY <1>1, <1>2 DEF LinesAreTheStream

-----------------------------------------------------------------------------
(* The handler: its header and its response                                *)

\* What a response is made of.
Items == [code : {200, 888}, length : Nat] \cup {"e"} \cup Nat

\* The lines of the header that operator() has taken: all that receiveLine has
\* returned, but for one that it has not looked at yet.
HeaderInv ==
    /\ headerLines \in Seq(Seq(Chars))
    /\ http = "called" => reading = "idle" /\ lines = <<>> /\ headerLines = <<>>
    /\ http \in {"called", "header"} => body = <<>>
    /\ http = "header" =>
          /\ reading /= "idle"
          /\ Len(lines) = IF reading = "got" THEN Len(headerLines) + 1 ELSE Len(headerLines)
          /\ \A k \in 1 .. Len(headerLines) : headerLines[k] = lines[k] /\ headerLines[k] /= <<>>
    /\ http \notin {"called", "header"} =>
          /\ reading \in {"got", "failed"}
          /\ ~silent => headerLines = HeaderOf(LinesOf(stream))

\* What is sent and what is left to send are the response together, of which the
\* first item tells the length.
ResponseInv ==
    /\ http \in {"called", "header", "handle", "opened", "sized", "thrown", "send", "over"}
    /\ fileLength \in Nat
    /\ fileSize \in Nat
    /\ http \notin {"send", "over"} => wire = <<>> /\ response = <<>>
    /\ wire \in Seq(Items) /\ toSend \in Seq(Items) /\ response \in Seq(Items)
    /\ http = "send" => wire \o toSend = response
    /\ http = "over" => IsPrefix(wire, response)
    /\ response /= <<>> => response[1].length = Len(response) - 1

HandlerInv == SocketInv /\ HeaderInv /\ ResponseInv

-----------------------------------------------------------------------------
(* The header of a stream                                                  *)

LEMMA LessNext ==
    ASSUME NEW len \in Nat, NEW n \in 0 .. len, n /= len
    PROVE  n + 1 \in 1 .. len
  OBVIOUS

\* The number before the first of a set of positions, or the last of all.
LEMMA BeforeFirst ==
    ASSUME NEW len \in Nat, NEW n \in 0 .. len, NEW E \in SUBSET (1 .. len),
           \A k \in 1 .. n : k \notin E,
           n = len \/ n + 1 \in E
    PROVE  Min({k - 1 : k \in E} \cup {len}) = n
<1> DEFINE until == {k - 1 : k \in E} \cup {len}
<1>1. ASSUME NEW x \in until
      PROVE  x \in Nat /\ n <= x
  <2>1. CASE x = len
    BY <2>1
  <2>2. CASE x /= len
    <3>1. PICK k \in E : x = k - 1
      BY <2>2
    <3>2. k \in 1 .. len /\ k \notin 1 .. n
      OBVIOUS
    <3> QED BY <3>1, <3>2
  <2> QED BY <2>1, <2>2
<1>2. n \in until
  <2>1. CASE n = len
    BY <2>1
  <2>2. CASE n + 1 \in E
    <3>1. n = (n + 1) - 1
      OBVIOUS
    <3> QED BY <2>2, <3>1
  <2> QED BY <2>1, <2>2
<1>3. until \in SUBSET Nat
  BY <1>1
<1> HIDE DEF until
<1>4. Min(until) \in until /\ \A x \in until : Min(until) <= x
  BY <1>2, <1>3, MinIsLeast
<1>5. Min(until) = n
  <2>1. Min(until) \in Nat /\ n <= Min(until)
    BY <1>1, <1>4
  <2>2. Min(until) <= n
    BY <1>2, <1>4
  <2> QED BY <2>1, <2>2
<1> QED BY <1>5 DEF until

LEMMA HeaderOfIs ==
    ASSUME NEW ls, Len(ls) \in Nat, DOMAIN ls = 1 .. Len(ls),
           NEW n \in 0 .. Len(ls),
           \A k \in 1 .. n : ls[k] /= <<>>,
           n = Len(ls) \/ ls[n + 1] = <<>>
    PROVE  HeaderOf(ls) = SubSeq(ls, 1, n)
<1> DEFINE empty == {i \in DOMAIN ls : ls[i] = <<>>}
<1>1. empty \in SUBSET (1 .. Len(ls)) /\ \A k \in 1 .. n : k \notin empty
  OBVIOUS
<1>2. n = Len(ls) \/ n + 1 \in empty
  <2>1. n /= Len(ls) => n + 1 \in 1 .. Len(ls)
    <3> HIDE DEF empty
    <3> QED BY LessNext
  <2> QED BY <2>1
<1> HIDE DEF empty
<1>3. Min({k - 1 : k \in empty} \cup {Len(ls)}) = n
  BY <1>1, <1>2, BeforeFirst
<1> QED BY <1>3 DEF HeaderOf, empty

\* The header is what has been taken of the lines, if it is over there.
LEMMA HeaderTaken ==
    ASSUME SocketInv, NEW hs, hs \in Seq(Seq(Chars)),
           Len(hs) <= Cardinality(Ends(stream)),
           \A k \in 1 .. Len(hs) : hs[k] = LinesOf(stream)[k] /\ hs[k] /= <<>>,
           Len(hs) = Cardinality(Ends(stream)) \/ LinesOf(stream)[Len(hs) + 1] = <<>>
    PROVE  hs = HeaderOf(LinesOf(stream))
<1> DEFINE ls == LinesOf(stream)  n == Len(hs)
<1>1. /\ Cardinality(Ends(stream)) \in Nat /\ Len(ls) = Cardinality(Ends(stream))
      /\ DOMAIN ls = 1 .. Len(ls)
  BY SocketTypesAre, LinesOfIs
<1>2. n \in Nat
  BY LenProperties
<1> HIDE DEF ls
<1>3. n \in 0 .. Len(ls)
  BY <1>1, <1>2
<1>4. /\ \A k \in 1 .. n : hs[k] = ls[k] /\ ls[k] /= <<>>
      /\ n = Len(ls) \/ ls[n + 1] = <<>>
  BY <1>1 DEF ls
<1>5. HeaderOf(ls) = SubSeq(ls, 1, n)
  BY <1>1, <1>3, <1>4, HeaderOfIs
<1>6. \A k \in 1 .. n : ls[k] \in Seq(Chars)
  BY <1>2, <1>4, ElementOfSeq
<1>7. 1 \in Int /\ n \in Int
  BY <1>2
<1>8. /\ SubSeq(ls, 1, n) \in Seq(Seq(Chars))
      /\ Len(SubSeq(ls, 1, n)) = IF 1 <= n THEN n - 1 + 1 ELSE 0
      /\ \A i \in 1 .. n - 1 + 1 : SubSeq(ls, 1, n)[i] = ls[1 + i - 1]
  BY <1>6, <1>7, SubSeqProperties
<1>9. Len(SubSeq(ls, 1, n)) = n /\ \A i \in 1 .. n : SubSeq(ls, 1, n)[i] = ls[i]
  BY <1>2, <1>8
<1>10. hs = SubSeq(ls, 1, n)
  <2>1. \A i \in 1 .. n : hs[i] = SubSeq(ls, 1, n)[i]
    BY <1>4, <1>9
  <2> QED BY <1>8, <1>9, <2>1, SeqEqual
<1> QED BY <1>5, <1>10 DEF ls

-----------------------------------------------------------------------------
(* operator()                                                              *)

LEMMA HandlerStarts ==
    ASSUME NEW s \in Streams, HttpStart(s)
    PROVE  HandlerInv
<1>1. SocketStart(s) /\ s \in Seq(Range(s))
  BY HttpAssumption DEF HttpStart
<1>2. SocketInv
  BY <1>1, SocketInvStart
<1>3. /\ http = "called" /\ reading = "idle" /\ silent = FALSE
      /\ lines = <<>> /\ headerLines = <<>> /\ body = <<>>
      /\ wire = <<>> /\ toSend = <<>> /\ response = <<>>
      /\ fileLength \in FileSizes /\ fileSize = 0
  BY <1>1 DEF HttpStart, SocketStart
<1>4. <<>> \in Seq(Seq(Chars)) /\ <<>> \in Seq(Items)
  BY EmptySeq
<1>5. HeaderInv
  BY <1>3, <1>4 DEF HeaderInv
<1>6. ResponseInv
  BY <1>3, <1>4, HttpAssumption DEF ResponseInv
<1> QED BY <1>2, <1>5, <1>6 DEF HandlerInv

\* A step that neither takes header lines nor sends.
LEMMA ResponseKept ==
    ASSUME ResponseInv, UNCHANGED <<fileLength, fileSize, wire, toSend, response>>,
           http' = http \/ /\ http \notin {"send", "over"}
                           /\ http' \in {"header", "handle", "opened", "sized", "thrown"}
    PROVE  ResponseInv'
  BY DEF ResponseInv

\* A step that receives nothing.
LEMMA HeaderKept ==
    ASSUME HeaderInv, UNCHANGED <<readVars, headerLines>>,
           http' = http \/ /\ http \notin {"called", "header"}
                           /\ http' \notin {"called", "header"}
    PROVE  HeaderInv'
<1>1. UNCHANGED <<stream, reading, lines, body, silent>>
  BY DEF readVars
<1>2. Chars' = Chars
  BY <1>1 DEF Chars
<1>3. HeaderOf(LinesOf(stream))' = HeaderOf(LinesOf(stream))
  BY <1>1
<1> QED BY <1>1, <1>2, <1>3 DEF HeaderInv

LEMMA HandlerCallKeeps == HandlerInv /\ HandlerCall => HandlerInv'
<1> SUFFICES ASSUME HandlerInv, HandlerCall PROVE HandlerInv'
  OBVIOUS
<1>1. /\ SocketInv /\ HeaderInv /\ ResponseInv /\ ReceiveLine
      /\ http = "called" /\ http' = "header"
      /\ UNCHANGED <<fileLength, fileSize, wire, toSend, response, headerLines>>
  BY DEF HandlerInv, HandlerCall
<1>2. headerLines \in Seq(Seq(Chars)) /\ lines = <<>> /\ headerLines = <<>> /\ body = <<>>
  BY <1>1 DEF HeaderInv
<1>3. Len(lines) = 0 /\ Len(headerLines) = 0
  BY <1>2, EmptySeq
<1>4. /\ reading' = "extract" /\ lines' = lines /\ body' = body /\ stream' = stream
  BY <1>1 DEF ReceiveLine
<1>5. SocketInv'
  BY <1>1, <1>2, ReceiveLineKeeps
<1>6. HeaderInv'
  <2>1. Chars' = Chars /\ headerLines' = headerLines
    BY <1>1, <1>4 DEF Chars
  <2>2. Len(lines') = 0 /\ Len(headerLines') = 0
    BY <1>3, <1>4, <2>1
  <2> QED BY <1>1, <1>2, <1>4, <2>1, <2>2 DEF HeaderInv
<1>7. ResponseInv'
  BY <1>1, ResponseKept
<1> QED BY <1>5, <1>6, <1>7 DEF HandlerInv

\* How a step of receiveLine moves the lines.
LEMMA LineStepIs ==
    ASSUME SocketInv, LineStep
    PROVE  /\ SocketInv' /\ reading \in {"extract", "receive"}
           /\ UNCHANGED <<stream, body>>
           /\ \/ lines' = lines /\ reading' \in {"extract", "receive", "failed"}
              \/ lines' = Append(lines, aLine') /\ reading' = "got" /\ aLine' \in Seq(Chars)
<1>1. SocketInv'
  BY ExtractNothingKeeps, ExtractLineKeeps, ReceiveChunkKeeps, ReceiveNothingKeeps DEF LineStep
<1>2. reading \in {"extract", "receive"} /\ UNCHANGED <<stream, body>>
  BY DEF LineStep, ExtractNothing, ExtractLine, ReceiveChunk, ReceiveNothing
<1>3. CASE ExtractLine
  <2>1. \/ lines' = lines /\ reading' = "receive"
        \/ lines' = Append(lines, aLine') /\ reading' = "got"
    BY <1>3 DEF ExtractLine
  <2>2. aLine' \in Seq(Chars')
    BY <1>1 DEF SocketInv, SocketTypes
  <2>3. Chars' = Chars
    BY <1>2 DEF Chars
  <2> QED BY <1>1, <1>2, <2>1, <2>2, <2>3
<1>4. CASE ExtractNothing \/ ReceiveChunk \/ ReceiveNothing
  <2>1. lines' = lines /\ reading' \in {"extract", "receive", "failed"}
    BY <1>4 DEF ExtractNothing, ReceiveChunk, ReceiveNothing
  <2> QED BY <1>1, <1>2, <2>1
<1> QED BY <1>3, <1>4 DEF LineStep

LEMMA HandlerReceivesKeeps == HandlerInv /\ HandlerReceives => HandlerInv'
<1> SUFFICES ASSUME HandlerInv, HandlerReceives PROVE HandlerInv'
  OBVIOUS
<1>1. /\ SocketInv /\ HeaderInv /\ ResponseInv /\ LineStep
      /\ http = "header" /\ http' = "header"
      /\ UNCHANGED <<fileLength, fileSize, wire, toSend, response, headerLines>>
  BY DEF HandlerInv, HandlerReceives, handlerVars
<1>2. /\ SocketInv' /\ reading \in {"extract", "receive"} /\ UNCHANGED <<stream, body>>
      /\ \/ lines' = lines /\ reading' \in {"extract", "receive", "failed"}
         \/ lines' = Append(lines, aLine') /\ reading' = "got" /\ aLine' \in Seq(Chars)
  BY <1>1, LineStepIs
<1>3. /\ headerLines \in Seq(Seq(Chars)) /\ body = <<>>
      /\ Len(lines) = Len(headerLines)
      /\ \A k \in 1 .. Len(headerLines) : headerLines[k] = lines[k] /\ headerLines[k] /= <<>>
  BY <1>1, <1>2 DEF HeaderInv
<1>4. lines \in Seq(Seq(Chars))
  BY <1>1 DEF SocketInv, SocketTypes
<1>5. /\ Len(lines') = IF reading' = "got" THEN Len(headerLines) + 1 ELSE Len(headerLines)
      /\ \A k \in 1 .. Len(headerLines) : headerLines[k] = lines'[k]
  <2>1. CASE lines' = lines /\ reading' \in {"extract", "receive", "failed"}
    BY <1>3, <2>1
  <2>2. CASE lines' = Append(lines, aLine') /\ reading' = "got" /\ aLine' \in Seq(Chars)
    <3>1. /\ Len(lines') = Len(lines) + 1
          /\ \A k \in 1 .. Len(lines) : lines'[k] = lines[k]
      BY <1>4, <2>2, AppendProperties
    <3> QED BY <1>3, <2>2, <3>1
  <2> QED BY <1>2, <2>1, <2>2
<1>6. HeaderInv'
  <2>1. Chars' = Chars /\ headerLines' = headerLines /\ reading' /= "idle" /\ body' = <<>>
    BY <1>1, <1>2, <1>3 DEF Chars
  <2> QED BY <1>1, <1>3, <1>5, <2>1 DEF HeaderInv
<1>7. ResponseInv'
  BY <1>1, ResponseKept
<1> QED BY <1>2, <1>6, <1>7 DEF HandlerInv

LEMMA HeaderLineKeeps == HandlerInv /\ HeaderLine => HandlerInv'
<1> SUFFICES ASSUME HandlerInv, HeaderLine PROVE HandlerInv'
  OBVIOUS
<1>1. /\ SocketInv /\ HeaderInv /\ ResponseInv /\ ReceiveLine
      /\ http = "header" /\ http' = "header" /\ reading = "got" /\ aLine /= <<>>
      /\ headerLines' = Append(headerLines, aLine)
      /\ UNCHANGED <<fileLength, fileSize, wire, toSend, response>>
  BY DEF HandlerInv, HeaderLine
<1>2. /\ headerLines \in Seq(Seq(Chars)) /\ body = <<>>
      /\ Len(lines) = Len(headerLines) + 1
      /\ \A k \in 1 .. Len(headerLines) : headerLines[k] = lines[k] /\ headerLines[k] /= <<>>
  BY <1>1 DEF HeaderInv
<1>3. aLine = lines[Len(lines)] /\ aLine \in Seq(Chars) /\ Len(headerLines) \in Nat
  BY <1>1, <1>2, LenProperties DEF SocketInv, SocketTypes, LinesInv
<1>4. /\ headerLines' \in Seq(Seq(Chars))
      /\ Len(headerLines') = Len(headerLines) + 1
      /\ \A k \in 1 .. Len(headerLines) : headerLines'[k] = headerLines[k]
      /\ headerLines'[Len(headerLines) + 1] = aLine
  BY <1>1, <1>2, <1>3, AppendProperties
<1>5. /\ reading' = "extract" /\ lines' = lines /\ body' = body /\ stream' = stream
  BY <1>1 DEF ReceiveLine
<1>6. ASSUME NEW k \in 1 .. Len(headerLines')
      PROVE  headerLines'[k] = lines[k] /\ headerLines'[k] /= <<>>
  <2>1. CASE k \in 1 .. Len(headerLines)
    BY <1>2, <1>4, <2>1
  <2>2. CASE k = Len(headerLines) + 1
    BY <1>1, <1>2, <1>3, <1>4, <2>2
  <2> QED BY <1>3, <1>4, <2>1, <2>2
<1>7. SocketInv'
  BY <1>1, <1>2, ReceiveLineKeeps
<1>8. HeaderInv'
  <2>1. Chars' = Chars
    BY <1>5 DEF Chars
  <2>2. Len(lines') = Len(headerLines')
    BY <1>2, <1>4, <1>5
  <2> QED BY <1>1, <1>2, <1>4, <1>5, <1>6, <2>1, <2>2 DEF HeaderInv
<1>9. ResponseInv'
  BY <1>1, ResponseKept
<1> QED BY <1>7, <1>8, <1>9 DEF HandlerInv

\* What is taken of the header when it is over.
LEMMA HeaderOverTakes ==
    ASSUME HandlerInv, HeaderOver
    PROVE  ~silent => headerLines = HeaderOf(LinesOf(stream))
<1>1. /\ SocketInv /\ HeaderInv /\ http = "header"
      /\ reading = "failed" \/ (reading = "got" /\ aLine = <<>>)
  BY DEF HandlerInv, HeaderOver
<1>2. /\ headerLines \in Seq(Seq(Chars))
      /\ Len(lines) = IF reading = "got" THEN Len(headerLines) + 1 ELSE Len(headerLines)
      /\ \A k \in 1 .. Len(headerLines) : headerLines[k] = lines[k] /\ headerLines[k] /= <<>>
  BY <1>1 DEF HeaderInv
<1>3. /\ Len(lines) <= Cardinality(Ends(stream))
      /\ \A k \in 1 .. Len(lines) : lines[k] = LinesOf(stream)[k]
      /\ reading = "got" => aLine = lines[Len(lines)]
      /\ reading = "failed" /\ ~silent => Len(lines) = Cardinality(Ends(stream))
  BY <1>1 DEF SocketInv, LinesInv
<1>4. Len(headerLines) \in Nat /\ Len(lines) \in Nat /\ Cardinality(Ends(stream)) \in Nat
  BY <1>1, <1>2, LenProperties, SocketTypesAre
<1>5. /\ Len(headerLines) <= Cardinality(Ends(stream))
      /\ \A k \in 1 .. Len(headerLines) :
            headerLines[k] = LinesOf(stream)[k] /\ headerLines[k] /= <<>>
  <2>1. Len(headerLines) <= Len(lines)
    BY <1>2, <1>4
  <2>2. \A k \in 1 .. Len(headerLines) : k \in 1 .. Len(lines)
    BY <1>4, <2>1
  <2>3. Len(headerLines) <= Cardinality(Ends(stream))
    BY <1>3, <1>4, <2>1
  <2> QED BY <1>2, <1>3, <2>2, <2>3
<1>6. CASE reading = "got"
  <2>1. Len(lines) = Len(headerLines) + 1 /\ aLine = <<>> /\ Len(lines) \in 1 .. Len(lines)
    BY <1>1, <1>2, <1>4, <1>6
  <2>2. LinesOf(stream)[Len(headerLines) + 1] = <<>>
    BY <1>3, <1>6, <2>1
  <2> QED BY <1>1, <1>2, <1>5, <2>2, HeaderTaken
<1>7. CASE reading = "failed"
  <2>1. Len(lines) = Len(headerLines)
    BY <1>2, <1>7
  <2> QED BY <1>1, <1>2, <1>3, <1>5, <1>7, <2>1, HeaderTaken
<1> QED BY <1>1, <1>6, <1>7

LEMMA ErrorPageIs ==
    /\ ErrorPage \in Seq(Items)
    /\ ErrorPage /= <<>>
    /\ ErrorPage[1].length = Len(ErrorPage) - 1
<1>1. [code |-> 888, length |-> 1] \in Items /\ "e" \in Items
  BY DEF Items
<1>2. Len(ErrorPage) = 2 /\ ErrorPage[1] = [code |-> 888, length |-> 1]
  BY DEF ErrorPage
<1> QED BY <1>1, <1>2 DEF ErrorPage

\* A response that is handed to send while nothing has been sent.
LEMMA ResponseHanded ==
    ASSUME ResponseInv, http \notin {"send", "over"}, http' = "send",
           NEW page, page \in Seq(Items), page[1].length = Len(page) - 1,
           response' = page, toSend' = page, UNCHANGED wire,
           UNCHANGED <<fileLength, fileSize>>
    PROVE  ResponseInv'
<1>1. wire' = <<>> /\ wire' \in Seq(Items) /\ fileLength' \in Nat /\ fileSize' \in Nat
  BY DEF ResponseInv
<1>2. <<>> \o page = page
  BY ConcatEmptySeq
<1>3. wire' \o toSend' = response'
  BY <1>1, <1>2
<1> QED BY <1>1, <1>3 DEF ResponseInv

LEMMA HeaderOverKeeps == HandlerInv /\ HeaderOver => HandlerInv'
<1> SUFFICES ASSUME HandlerInv, HeaderOver PROVE HandlerInv'
  OBVIOUS
<1>1. /\ SocketInv /\ HeaderInv /\ ResponseInv /\ http = "header"
      /\ reading \in {"got", "failed"}
      /\ http' \in {"handle", "send"}
      /\ UNCHANGED <<readVars, headerLines, fileLength, fileSize, wire>>
  BY DEF HandlerInv, HeaderOver, RespondError
<1>2. SocketInv'
  BY <1>1, ReadKept
<1>3. HeaderInv'
  <2>1. ~silent => headerLines = HeaderOf(LinesOf(stream))
    BY HeaderOverTakes
  <2>2. UNCHANGED <<stream, reading, silent>> /\ headerLines' = headerLines
    BY <1>1 DEF readVars
  <2>3. headerLines \in Seq(Seq(Chars)) /\ Chars' = Chars
    BY <1>1, <2>2 DEF HeaderInv, Chars
  <2>4. http' \notin {"called", "header"}
    BY <1>1
  <2> QED BY <1>1, <2>1, <2>2, <2>3, <2>4 DEF HeaderInv
<1>4. ResponseInv'
  <2>1. CASE RespondError
    BY <1>1, <2>1, ErrorPageIs, ResponseHanded DEF RespondError
  <2>2. CASE http' = "handle" /\ UNCHANGED <<toSend, response>>
    BY <1>1, <2>2, ResponseKept
  <2> QED BY <2>1, <2>2 DEF HeaderOver
<1> QED BY <1>2, <1>3, <1>4 DEF HandlerInv

LEMMA HandleReceiveKeeps == HandlerInv /\ HandleReceive => HandlerInv'
<1> SUFFICES ASSUME HandlerInv, HandleReceive PROVE HandlerInv'
  OBVIOUS
<1>1. /\ SocketInv /\ HeaderInv /\ ResponseInv /\ http = "handle" /\ http' = "handle"
      /\ UNCHANGED <<headerLines, fileLength, fileSize, wire, toSend, response>>
  BY DEF HandlerInv, HandleReceive, handlerVars
<1>2. PICK size \in BodySizes : Receive(size)
  BY DEF HandleReceive
<1>3. size \in Nat /\ reading \in {"got", "failed"}
  BY <1>1, HttpAssumption DEF HeaderInv
<1>4. SocketInv'
  BY <1>1, <1>2, <1>3, ReceiveKeeps
<1>5. HeaderInv'
  <2>1. UNCHANGED <<stream, reading, silent, headerLines>>
    BY <1>1, <1>2 DEF Receive
  <2>2. Chars' = Chars
    BY <2>1 DEF Chars
  <2> QED BY <1>1, <2>1, <2>2 DEF HeaderInv
<1>6. ResponseInv'
  BY <1>1, ResponseKept
<1> QED BY <1>4, <1>5, <1>6 DEF HandlerInv

LEMMA HandleReturnKeeps == HandlerInv /\ HandleReturn => HandlerInv'
<1> SUFFICES ASSUME HandlerInv, HandleReturn PROVE HandlerInv'
  OBVIOUS
<1>1. /\ SocketInv /\ HeaderInv /\ ResponseInv /\ http = "handle" /\ http' = "over"
      /\ UNCHANGED <<readVars, headerLines, fileLength, fileSize, wire, toSend, response>>
  BY DEF HandlerInv, HandleReturn, socketVars, readVars
<1>2. SocketInv' /\ HeaderInv'
  BY <1>1, ReadKept, HeaderKept
<1>3. ResponseInv'
  <2>1. wire = <<>> /\ response = <<>>
    BY <1>1 DEF ResponseInv
  <2>2. Len(wire) = 0 /\ Len(response) = 0
    BY <2>1, EmptySeq
  <2>3. IsPrefix(wire, response)
    BY <2>2, PrefixIs
  <2> QED BY <1>1, <2>1, <2>3 DEF ResponseInv
<1> QED BY <1>2, <1>3 DEF HandlerInv

LEMMA SendFileOpenKeeps == HandlerInv /\ SendFileOpen => HandlerInv'
<1> SUFFICES ASSUME HandlerInv, SendFileOpen PROVE HandlerInv'
  OBVIOUS
<1>1. /\ SocketInv /\ HeaderInv /\ ResponseInv /\ http = "handle" /\ http' \in {"opened", "send"}
      /\ UNCHANGED <<readVars, headerLines, fileLength, fileSize, wire>>
  BY DEF HandlerInv, SendFileOpen, RespondError
<1>2. SocketInv' /\ HeaderInv'
  BY <1>1, ReadKept, HeaderKept
<1>3. ResponseInv'
  <2>1. CASE RespondError
    BY <1>1, <2>1, ErrorPageIs, ResponseHanded DEF RespondError
  <2>2. CASE http' = "opened" /\ UNCHANGED <<toSend, response>>
    BY <1>1, <2>2, ResponseKept
  <2> QED BY <2>1, <2>2 DEF SendFileOpen
<1> QED BY <1>2, <1>3 DEF HandlerInv

LEMMA SendFileSizeKeeps == HandlerInv /\ SendFileSize => HandlerInv'
<1> SUFFICES ASSUME HandlerInv, SendFileSize PROVE HandlerInv'
  OBVIOUS
<1>1. /\ SocketInv /\ HeaderInv /\ ResponseInv /\ http = "opened" /\ http' \in {"sized", "thrown"}
      /\ UNCHANGED <<readVars, headerLines, fileLength, wire, toSend, response>>
  BY DEF HandlerInv, SendFileSize, socketVars, readVars
<1>2. SocketInv' /\ HeaderInv'
  BY <1>1, ReadKept, HeaderKept
<1>3. fileSize' \in Nat
  <2>1. fileSize \in Nat /\ fileLength \in Nat
    BY <1>1 DEF ResponseInv
  <2> QED BY <2>1, HttpAssumption DEF SendFileSize
<1>4. ResponseInv'
  BY <1>1, <1>3 DEF ResponseInv
<1> QED BY <1>2, <1>4 DEF HandlerInv

\* A page is what announces its length and as many bytes.
LEMMA PageIs ==
    ASSUME NEW size \in Nat,
           NEW page, page = <<[code |-> 200, length |-> size]>> \o [i \in 1 .. size |-> i]
    PROVE  page \in Seq(Items) /\ page[1].length = Len(page) - 1
<1> DEFINE announced == [code |-> 200, length |-> size]
           head == <<announced>>
           bytes == [i \in 1 .. size |-> i]
<1>1. announced \in Items /\ announced.length = size
  BY DEF Items
<1>2. bytes \in Seq(Items) /\ Len(bytes) = size
  <2>1. bytes \in [1 .. size -> Nat] /\ Nat \subseteq Items
    BY DEF Items
  <2>2. bytes \in [1 .. size -> Items] /\ DOMAIN bytes = 1 .. size
    BY <2>1
  <2> QED BY <2>2
<1>3. page = head \o bytes
  OBVIOUS
<1> HIDE DEF announced, bytes
<1>4. head \in Seq(Items) /\ Len(head) = 1 /\ head[1] = announced
  BY <1>1
<1> HIDE DEF head
<1>5. /\ head \o bytes \in Seq(Items)
      /\ Len(head \o bytes) = Len(head) + Len(bytes)
      /\ \A i \in 1 .. Len(head) + Len(bytes) :
            (head \o bytes)[i] = IF i <= Len(head) THEN head[i] ELSE bytes[i - Len(head)]
  BY <1>2, <1>4, ConcatProperties
<1>6. 1 \in 1 .. Len(head) + Len(bytes) /\ 1 <= Len(head) /\ Len(head) + Len(bytes) - 1 = size
  BY <1>2, <1>4
<1>7. page[1] = announced
  BY <1>3, <1>4, <1>5, <1>6
<1>8. page \in Seq(Items) /\ Len(page) = Len(head) + Len(bytes)
  BY <1>3, <1>5
<1>9. Len(page) - 1 = size
  BY <1>2, <1>4, <1>8
<1> QED BY <1>1, <1>7, <1>8, <1>9

LEMMA SendFileReadKeeps == HandlerInv /\ SendFileRead => HandlerInv'
<1> SUFFICES ASSUME HandlerInv, SendFileRead PROVE HandlerInv'
  OBVIOUS
<1> DEFINE page == <<[code |-> 200, length |-> fileSize]>> \o [i \in 1 .. fileSize |-> i]
<1>1. /\ SocketInv /\ HeaderInv /\ ResponseInv /\ http = "sized" /\ http' = "send"
      /\ UNCHANGED <<readVars, headerLines, fileLength, fileSize, wire>>
  BY DEF HandlerInv, SendFileRead, RespondError
<1>2. SocketInv' /\ HeaderInv'
  BY <1>1, ReadKept, HeaderKept
<1>3. ResponseInv'
  <2>1. CASE RespondError
    BY <1>1, <2>1, ErrorPageIs, ResponseHanded DEF RespondError
  <2>2. CASE response' = page /\ toSend' = page
    <3>1. fileSize \in Nat
      BY <1>1 DEF ResponseInv
    <3>2. page \in Seq(Items) /\ page[1].length = Len(page) - 1
      BY <3>1, PageIs
    <3> HIDE DEF page
    <3> QED BY <1>1, <2>2, <3>2, ResponseHanded
  <2> QED BY <2>1, <2>2 DEF SendFileRead
<1> QED BY <1>2, <1>3 DEF HandlerInv

LEMMA FileChangesKeeps == HandlerInv /\ FileChanges => HandlerInv'
<1> SUFFICES ASSUME HandlerInv, FileChanges PROVE HandlerInv'
  OBVIOUS
<1>1. /\ SocketInv /\ HeaderInv /\ ResponseInv
      /\ UNCHANGED <<readVars, http, headerLines, fileSize, wire, toSend, response>>
  BY DEF HandlerInv, FileChanges, socketVars, readVars
<1>2. SocketInv' /\ HeaderInv'
  BY <1>1, ReadKept, HeaderKept
<1>3. fileLength' \in Nat
  BY <1>1, HttpAssumption DEF FileChanges, ResponseInv
<1>4. ResponseInv'
  BY <1>1, <1>3 DEF ResponseInv
<1> QED BY <1>2, <1>4 DEF HandlerInv

LEMMA HandlerSendsKeeps == HandlerInv /\ HandlerSends => HandlerInv'
<1> SUFFICES ASSUME HandlerInv, HandlerSends PROVE HandlerInv'
  OBVIOUS
<1>1. /\ SocketInv /\ HeaderInv /\ ResponseInv /\ http = "send"
      /\ UNCHANGED <<readVars, http, headerLines, fileLength, fileSize, response>>
  BY DEF HandlerInv, HandlerSends, SendSome, handlerVars
<1>2. SocketInv' /\ HeaderInv'
  BY <1>1, ReadKept, HeaderKept
<1>3. PICK n \in 1 .. Len(toSend) : /\ wire' = wire \o SubSeq(toSend, 1, n)
                                    /\ toSend' = SubSeq(toSend, n + 1, Len(toSend))
  BY DEF HandlerSends, SendSome
<1>4. /\ wire \in Seq(Items) /\ toSend \in Seq(Items) /\ wire \o toSend = response
      /\ Len(toSend) \in Nat
  BY <1>1, LenProperties DEF ResponseInv
<1>5. n \in Nat /\ n <= Len(toSend) /\ 0 <= n
  BY <1>3, <1>4
<1>6. SubSeq(toSend, 1, n) \in Seq(Items) /\ SubSeq(toSend, n + 1, Len(toSend)) \in Seq(Items)
  BY <1>4, <1>5, PieceAtStart, CutLeaves
<1>7. SubSeq(toSend, 1, n) \o SubSeq(toSend, n + 1, Len(toSend)) = toSend
  <2>1. SubSeq(toSend, 0 + 1, n) \o SubSeq(toSend, n + 1, Len(toSend))
           = SubSeq(toSend, 0 + 1, Len(toSend))
    <3>1. 0 \in Nat /\ Len(toSend) <= Len(toSend)
      BY <1>4
    <3> QED BY <1>4, <1>5, <3>1, PiecesJoin
  <2>2. SubSeq(toSend, 1, Len(toSend)) = toSend
    BY <1>4, SubSeqFull
  <2>3. 0 + 1 = 1
    OBVIOUS
  <2> QED BY <2>1, <2>2, <2>3
<1>8. wire' \o toSend' = response
  <2>1. (wire \o SubSeq(toSend, 1, n)) \o SubSeq(toSend, n + 1, Len(toSend))
           = wire \o (SubSeq(toSend, 1, n) \o SubSeq(toSend, n + 1, Len(toSend)))
    <3> DEFINE first == SubSeq(toSend, 1, n)
               rest == SubSeq(toSend, n + 1, Len(toSend))
    <3>1. wire \in Seq(Items) /\ first \in Seq(Items) /\ rest \in Seq(Items)
      BY <1>4, <1>6
    <3> HIDE DEF first, rest
    <3>2. (wire \o first) \o rest = wire \o (first \o rest)
      BY <3>1, ConcatAssociative
    <3> QED BY <3>2 DEF first, rest
  <2> QED BY <1>3, <1>4, <1>7, <2>1
<1>9. wire' \in Seq(Items) /\ toSend' \in Seq(Items)
  BY <1>3, <1>4, <1>6, ConcatProperties
<1>10. ResponseInv'
  BY <1>1, <1>8, <1>9 DEF ResponseInv
<1> QED BY <1>2, <1>10 DEF HandlerInv

\* What is sent is the beginning of what is sent and left to send.
LEMMA SentIsPrefix ==
    ASSUME NEW S, NEW a \in Seq(S), NEW b \in Seq(S)
    PROVE  IsPrefix(a, a \o b)
<1>1. Len(a) \in Nat /\ Len(b) \in Nat
  BY LenProperties
<1>2. /\ Len(a \o b) = Len(a) + Len(b)
      /\ \A i \in 1 .. Len(a) + Len(b) : (a \o b)[i] = IF i <= Len(a) THEN a[i] ELSE b[i - Len(a)]
  BY ConcatProperties
<1>3. Len(a) <= Len(a \o b) /\ \A k \in 1 .. Len(a) : a[k] = (a \o b)[k]
  BY <1>1, <1>2
<1> QED BY <1>1, <1>3, PrefixIs

LEMMA SendReturnsKeeps == HandlerInv /\ SendReturns => HandlerInv'
<1> SUFFICES ASSUME HandlerInv, SendReturns PROVE HandlerInv'
  OBVIOUS
<1>1. /\ SocketInv /\ HeaderInv /\ ResponseInv /\ http = "send" /\ http' = "over"
      /\ UNCHANGED <<readVars, headerLines, fileLength, fileSize, wire, response>>
      /\ toSend' = <<>>
  BY DEF HandlerInv, SendReturns, Close
<1>2. SocketInv' /\ HeaderInv'
  BY <1>1, ReadKept, HeaderKept
<1>3. IsPrefix(wire, response)
  <2>1. wire \in Seq(Items) /\ toSend \in Seq(Items) /\ wire \o toSend = response
    BY <1>1 DEF ResponseInv
  <2> QED BY <2>1, SentIsPrefix
<1>4. toSend' \in Seq(Items)
  BY <1>1, EmptySeq
<1>5. ResponseInv'
  BY <1>1, <1>3, <1>4 DEF ResponseInv
<1> QED BY <1>2, <1>5 DEF HandlerInv

LEMMA HandlerStutters == HandlerInv /\ UNCHANGED httpVars => HandlerInv'
<1> SUFFICES ASSUME HandlerInv, UNCHANGED httpVars PROVE HandlerInv'
  OBVIOUS
<1>1. /\ SocketInv /\ HeaderInv /\ ResponseInv
      /\ UNCHANGED <<readVars, http, headerLines, fileLength, fileSize, wire, toSend, response>>
  BY DEF HandlerInv, httpVars, socketVars, readVars, handlerVars
<1>2. SocketInv' /\ HeaderInv' /\ ResponseInv'
  BY <1>1, ReadKept, HeaderKept, ResponseKept
<1> QED BY <1>2 DEF HandlerInv

LEMMA HandlerInvKept == HandlerInv /\ [HttpNext]_httpVars => HandlerInv'
  BY HandlerCallKeeps, HandlerReceivesKeeps, HeaderLineKeeps, HeaderOverKeeps,
     HandleReceiveKeeps, HandleReturnKeeps, SendFileOpenKeeps, SendFileSizeKeeps,
     SendFileReadKeeps, FileChangesKeeps, HandlerSendsKeeps, SendReturnsKeeps,
     HandlerStutters
  DEF HttpNext

LEMMA HandlerInvAlways == HttpSpec => []HandlerInv
<1>1. HttpInit => HandlerInv
  BY HandlerStarts DEF HttpInit
<1> QED BY <1>1, HandlerInvKept, PTL DEF HttpSpec

LEMMA HandlerInvSays == HandlerInv => ExchangeIsWhole
<1> SUFFICES ASSUME HandlerInv PROVE ExchangeIsWhole
  OBVIOUS
<1>1. RequestIsWhole
  BY DEF HandlerInv, HeaderInv, RequestIsWhole
<1>2. IsPrefix(wire, response)
  <2>1. CASE http = "send"
    BY <2>1, SentIsPrefix DEF HandlerInv, ResponseInv
  <2>2. CASE http = "over"
    BY <2>2 DEF HandlerInv, ResponseInv
  <2>3. CASE http \notin {"send", "over"}
    <3>1. wire = <<>> /\ response = <<>>
      BY <2>3 DEF HandlerInv, ResponseInv
    <3>2. Len(wire) = 0 /\ Len(response) = 0
      BY <3>1, EmptySeq
    <3> QED BY <3>2, PrefixIs
  <2> QED BY <2>1, <2>2, <2>3
<1>3. response /= <<>> => response[1].length = Len(response) - 1
  BY DEF HandlerInv, ResponseInv
<1> QED BY <1>1, <1>2, <1>3 DEF ExchangeIsWhole, ResponseIsWhole

\* receiveLine returns the lines of the stream, and receive what is behind them,
\* for every stream, every size of the chunk and every way the kernel cuts it.
THEOREM LinesAreThoseOfTheStream == HttpSpec => []LinesAreTheStream
<1>1. HandlerInv => LinesAreTheStream
  BY SocketInvSays DEF HandlerInv
<1> QED BY <1>1, HandlerInvAlways, PTL

\* The request is made of the whole header, and the response is whole.
THEOREM ExchangesAreWhole == HttpSpec => []ExchangeIsWhole
  BY HandlerInvAlways, HandlerInvSays, PTL
=============================================================================
