----------------------------- MODULE HttpDownloader -----------------------------
(***************************************************************************)
(* src/net/HttpDownloader.cpp with src/net/CurlSession.cpp: a thread,      *)
(* doDownload, asks for the content length, fetches the tail of the file   *)
(* when the user wants to look at it first, and then the whole file over   *)
(* it.  cancelDownload raises iTerminated, which only the progress         *)
(* callback of the second transfer looks at, and joins the thread.         *)
(*                                                                         *)
(* The file is two parts, the tail and what comes before it, and what may  *)
(* be beyond them.  libcurl is external: a transfer ends with an error, is *)
(* aborted by the progress callback, or brings a response code and a body. *)
(* The resource keeps its length and a 200 brings it whole; a 206 brings   *)
(* the range asked for, or one of another length.                          *)
(* That iLocalName can be opened is assumed: the code goes on with a null  *)
(* stream if not.  Callbacks are given, and do not use the downloader.     *)
(***************************************************************************)
EXTENDS Integers

CONSTANT MaxStarts   \* bound: how often startDownload is called

ASSUME StartsAssumption == MaxStarts \in Nat

Downloads == 1 .. MaxStarts

VARIABLES
    iStatus,
    iTerminated,
    iResponseCode,
    iTailPeekSize,     \* only whether it is positive
    iDownloadThread,   \* the download whose thread the object still knows, or 0
    thread,            \* where doDownload stands in each
    tailRange,         \* the tail asked for: "none", "part" or "all" of the file
    tailFits,          \* partialContentLength = tailSize, where it was compared
    file,              \* what iLocalName holds in each part
    position,          \* the position of iLocalFileFd, at a transfer's start
    started,           \* history: calls of startDownload
    owner,             \* where the owner of the object stands
    destroying

vars == <<iStatus, iTerminated, iResponseCode, iTailPeekSize, iDownloadThread,
          thread, tailRange, tailFits, file, position, started, owner,
          destroying>>

ownerVars == <<iTerminated, iDownloadThread, started, owner, destroying>>

Status == {"INIT", "DOWNLOADING", "SUCCESS", "ABORTED", "RESPONSE_ERROR_CODE",
           "NO_RESPONSE_CODE", "TAIL_DOWNLOAD_ERROR", "NO_CONTENT_LENGTH"}

\* A response code, 404 standing for all others; INVALID_HTTP_RESPONSE_CODE.
Codes == {200, 206, 404}
INVALID == -1

\* The CURLcodes of a transfer that fails.
ABORTED == 42   \* CURLE_ABORTED_BY_CALLBACK
ERROR   == 56   \* any other

ThreadState == {"none", "head", "tail", "full", "finish", "ended"}

\* "hole": nothing written; "other": bytes that do not belong there.
Part == {"hole", "body", "other"}

Files == [head : Part, tail : Part, beyond : {"hole", "other"}]
Empty == [head |-> "hole", tail |-> "hole", beyond |-> "hole"]

Init ==
    /\ iStatus = "INIT"
    /\ iTerminated = FALSE
    /\ iResponseCode = INVALID
    /\ iTailPeekSize = FALSE
    /\ iDownloadThread = 0
    /\ thread = [d \in Downloads |-> "none"]
    /\ tailRange = "none"
    /\ tailFits = TRUE
    /\ file = Empty
    /\ position = "start"
    /\ started = 0
    /\ owner = "idle"
    /\ destroying = FALSE

isFinished == iStatus \notin {"INIT", "DOWNLOADING"}

ThreadGoto(d, where) == thread' = [thread EXCEPT ![d] = where]

-----------------------------------------------------------------------------
(* The owner                                                               *)

\* Assumed of the caller, startDownload does not look: it knows of no thread, or
\* has seen isFinished.  Two transfers would use one iLocalFileFd.
NoDownloadRuns == iDownloadThread = 0 \/ isFinished

\* The thread that is started is from then on the one that can be joined.
StartDownload(aTailPeek) ==
    /\ owner = "idle"
    /\ ~destroying
    /\ started < MaxStarts
    /\ NoDownloadRuns
    /\ iStatus' = "DOWNLOADING"
    /\ iTailPeekSize' = aTailPeek
    /\ started' = started + 1
    /\ iDownloadThread' = started + 1
    /\ ThreadGoto(started + 1, "head")
    /\ UNCHANGED <<iTerminated, iResponseCode, tailRange, tailFits, file, position,
                   owner, destroying>>

\* cancelDownload, called by the owner or by the destructor.
CancelDownload(aDestroying) ==
    /\ owner = "idle"
    /\ ~destroying
    /\ destroying' = aDestroying
    /\ iTerminated' = TRUE
    /\ owner' = "join"
    /\ UNCHANGED <<iStatus, iResponseCode, iTailPeekSize, iDownloadThread, thread,
                   tailRange, tailFits, file, position, started>>

\* Mutant of CancelJoined: the thread is let go, not joined.
CancelDetached ==
    /\ owner = "join"
    /\ iDownloadThread' = 0
    /\ owner' = "idle"
    /\ UNCHANGED <<iStatus, iTerminated, iResponseCode, iTailPeekSize, thread,
                   tailRange, tailFits, file, position, started, destroying>>

CancelJoined ==
    /\ owner = "join"
    /\ iDownloadThread /= 0 => thread[iDownloadThread] = "ended"
    /\ iDownloadThread' = 0
    /\ owner' = "idle"
    /\ UNCHANGED <<iStatus, iTerminated, iResponseCode, iTailPeekSize, thread,
                   tailRange, tailFits, file, position, started, destroying>>

-----------------------------------------------------------------------------
(* CurlSession                                                             *)

\* Mutant of PerformDownload: the response code is the caller's business.
PerformDownloadAnyCode(ranged, result) ==
    [ok |-> result \in Codes, code |-> IF result \in Codes THEN result ELSE INVALID]

\* What performDownload returns, and leaves in aResponseCode, for what came of
\* the transfer.
PerformDownload(ranged, result) ==
    [ok   |-> result = IF ranged THEN 206 ELSE 200,
     code |-> IF result \in Codes THEN result ELSE INVALID]

\* What bytes that are not those of the tail leave, written from where it begins.
Overwritten == {file, [file EXCEPT !.tail = "other"],
                [file EXCEPT !.tail = "other", !.beyond = "other"]}

\* The file after bytes have been written at the position: the whole file, the
\* tail of it, an error page, or only some of what was to come.
Written(where, result) ==
    CASE result = 200 /\ where = "start" ->
                {[file EXCEPT !.head = "body", !.tail = "body"]}
      [] result = 206 /\ where = "tail"  -> {[file EXCEPT !.tail = "body"]}
      [] result = 404 /\ where = "start" ->
                {file, [file EXCEPT !.head = "other"],
                 [head |-> "other", tail |-> "other", beyond |-> "other"]}
      [] OTHER -> IF where = "start" THEN {file, [file EXCEPT !.head = "body"]}
                                     ELSE Overwritten

Ranged == tailRange = "part"

-----------------------------------------------------------------------------
(* doDownload                                                              *)

\* No answer in time, an HTTP error, or an empty file.
HeadFails(d) ==
    /\ thread[d] = "head"
    /\ iStatus' = "NO_CONTENT_LENGTH"
    /\ ThreadGoto(d, "finish")
    /\ UNCHANGED <<iResponseCode, iTailPeekSize, tailRange, tailFits, file, position,
                   ownerVars>>

\* The content length is known or not; the file is opened, and emptied.  A tail
\* as long as the file begins with its first byte.
HeadOk(d, known) ==
    /\ thread[d] = "head"
    /\ file' = Empty
    /\ tailFits' = TRUE
    /\ IF iTailPeekSize /\ known
         THEN /\ tailRange' \in {"part", "all"}
              /\ position' = IF tailRange' = "part" THEN "tail" ELSE "start"
              /\ ThreadGoto(d, "tail")
         ELSE /\ position' = "start"
              /\ tailRange' = "none"
              /\ ThreadGoto(d, "full")
    /\ UNCHANGED <<iStatus, iResponseCode, iTailPeekSize, ownerVars>>

\* Mutant of TailEnds: the file is not rewound for the second transfer.
TailEndsNoSeek(d, result, fits) ==
    /\ thread[d] = "tail"
    /\ result = 206 => Ranged
    /\ ~fits => result = 206
    /\ tailFits' = fits
    /\ file' \in IF fits THEN Written(position, result) ELSE Overwritten
    /\ iResponseCode' = PerformDownload(Ranged, result).code
    /\ IF PerformDownload(Ranged, result).ok
         THEN ThreadGoto(d, "full") /\ UNCHANGED iStatus
         ELSE ThreadGoto(d, "finish") /\ iStatus' = "TAIL_DOWNLOAD_ERROR"
    /\ UNCHANGED <<position, iTailPeekSize, tailRange, ownerVars>>

\* The transfer of the tail comes to its end.  It has no progress callback, so
\* nobody aborts it.  A range from the first byte is asked for without a range.
\* A 206 of another length is logged, and the download goes on.
TailEnds(d, result, fits) ==
    /\ thread[d] = "tail"
    /\ result = 206 => Ranged
    /\ ~fits => result = 206
    /\ tailFits' = fits
    /\ file' \in IF fits THEN Written(position, result) ELSE Overwritten
    /\ iResponseCode' = PerformDownload(Ranged, result).code
    /\ IF PerformDownload(Ranged, result).ok
         THEN /\ ThreadGoto(d, "full")
              /\ position' = "start"
              /\ UNCHANGED iStatus
         ELSE /\ ThreadGoto(d, "finish")
              /\ iStatus' = "TAIL_DOWNLOAD_ERROR"
              /\ UNCHANGED position
    /\ UNCHANGED <<iTailPeekSize, tailRange, ownerVars>>

\* The status after the second transfer; the codes looked at after CURLE_OK can
\* only be 200, and other errors are not looked at.
StatusAfter(result, perform) ==
    IF result = ABORTED THEN "ABORTED"
    ELSE IF ~perform.ok THEN iStatus
    ELSE IF perform.code = INVALID THEN "NO_RESPONSE_CODE"
    ELSE IF perform.code /= 200 THEN "RESPONSE_ERROR_CODE"
    ELSE "SUCCESS"

\* Mutant of FullAborted: iTerminated is not looked at.
FullAbortedNever(d) == FALSE /\ UNCHANGED vars

\* The second transfer comes to its end.
FullEnds(d, result) ==
    /\ thread[d] = "full"
    /\ result /= 206
    /\ file' \in Written(position, result)
    /\ iResponseCode' = PerformDownload(FALSE, result).code
    /\ iStatus' = StatusAfter(result, PerformDownload(FALSE, result))
    /\ ThreadGoto(d, "finish")
    /\ UNCHANGED <<iTailPeekSize, tailRange, tailFits, position, ownerVars>>

\* libcurl calls the progress callback all the time; it ends the transfer once
\* iTerminated is raised.
FullAborted(d) ==
    /\ thread[d] = "full"
    /\ iTerminated
    /\ file' \in Written(position, ABORTED)
    /\ iResponseCode' = PerformDownload(FALSE, ABORTED).code
    /\ iStatus' = StatusAfter(ABORTED, PerformDownload(FALSE, ABORTED))
    /\ ThreadGoto(d, "finish")
    /\ UNCHANGED <<iTailPeekSize, tailRange, tailFits, position, ownerVars>>

\* iOnFinishDownload is called, and returns.
Finish(d) ==
    /\ thread[d] = "finish"
    /\ ThreadGoto(d, "ended")
    /\ UNCHANGED <<iStatus, iResponseCode, iTailPeekSize, tailRange, tailFits, file,
                   position, ownerVars>>

-----------------------------------------------------------------------------
Results == Codes \cup {ERROR}

HeadEnds(d) == HeadFails(d) \/ \E known \in BOOLEAN : HeadOk(d, known)

Next ==
    \/ \E peek \in BOOLEAN : StartDownload(peek)
    \/ \E b \in BOOLEAN : CancelDownload(b)
    \/ CancelJoined
    \/ \E d \in Downloads :
          \/ HeadEnds(d)
          \/ \E r \in Results, fits \in BOOLEAN : TailEnds(d, r, fits)
          \/ \E r \in Results : FullEnds(d, r)
          \/ FullAborted(d)
          \/ Finish(d)

Spec == Init /\ [][Next]_vars

\* Asking for the length has a timeout.  Neither of the transfers need end: the
\* tail's has no time limit and no progress callback, the other has the callback.
Fairness ==
    /\ \A d \in Downloads :
          /\ WF_vars(HeadEnds(d))
          /\ WF_vars(FullAborted(d))
          /\ WF_vars(Finish(d))
    /\ WF_vars(CancelJoined)

FairSpec == Spec /\ Fairness

-----------------------------------------------------------------------------
\* Every variable keeps its type; the two statuses for a response code are never
\* reached, because performDownload has turned other codes into errors.
TypeOK ==
    /\ iStatus \in Status \ {"RESPONSE_ERROR_CODE", "NO_RESPONSE_CODE"}
    /\ iTerminated \in BOOLEAN
    /\ iResponseCode \in Codes \cup {INVALID}
    /\ iTailPeekSize \in BOOLEAN
    /\ iDownloadThread \in {0} \cup Downloads
    /\ thread \in [Downloads -> ThreadState]
    /\ tailRange \in {"none", "part", "all"}
    /\ tailFits \in BOOLEAN
    /\ file \in Files
    /\ position \in {"start", "tail"}
    /\ started \in 0 .. MaxStarts
    /\ owner \in {"idle", "join"}
    /\ destroying \in BOOLEAN

\* A download that reports success has left the whole file in its place,
\* whatever the tail's transfer wrote before, and nothing beyond it unless the
\* server had sent more than the tail that it was asked for.
SuccessIsWhole ==
    iStatus = "SUCCESS" =>
        /\ file.head = "body" /\ file.tail = "body"
        /\ tailFits => file.beyond = "hole"

\* When the whole file is fetched after its tail, the tail is already there to
\* be looked at, also when it is all of the file, if what the server sent had
\* the length of the tail; no error page stands in it.
TailIsThere ==
    \A d \in Downloads :
        thread[d] = "full" /\ tailRange /= "none" /\ tailFits =>
            /\ file.tail = "body"
            /\ tailRange = "all" => file.head = "body"

\* What the file holds when somebody looks at it, before and after the body.
FileIsWhole == SuccessIsWhole /\ TailIsThere

\* After cancelDownload no transfer writes to the file any more; at most a
\* former thread, which a second startDownload let go after isFinished, is still
\* in the user's callback.
CancelledIsQuiet ==
    owner = "idle" /\ iDownloadThread = 0 =>
        \A d \in Downloads : thread[d] \in {"none", "finish", "ended"}

\* cancelDownload returns, even if the server has stopped sending the file; but
\* for the tail it waits as long as the server likes.
FetchesTail == iDownloadThread /= 0 /\ thread[iDownloadThread] = "tail"

CancelReturns ==
    (owner = "join") ~> (owner = "idle" \/ FetchesTail)

\* "Is download complete" (HttpDownloader.cpp:97): when the last download is
\* over, isFinished says so.
OverIsFinished ==
    started > 0 /\ (\A d \in Downloads : thread[d] \in {"none", "ended"}) => isFinished
=============================================================================
