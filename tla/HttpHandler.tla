------------------------------ MODULE HttpHandler ------------------------------
(***************************************************************************)
(* net::BaseHttpHandler on one connection: the lines of the header are     *)
(* received, the request is made of them, the derived class handles it,    *)
(* and a file or an error page is sent.                                    *)
(*                                                                         *)
(* The request itself is left out: there is one from "handle" on, and no   *)
(* step reads what create copies into it from the lines.                   *)
(***************************************************************************)
EXTENDS Socket

CONSTANTS Streams,      \* bound: what a peer may send
          FileSizes,    \* bound: the lengths that the file may have
          BodySizes     \* bound: what handleRequest asks receive for

ASSUME HttpAssumption ==
    /\ \A s \in Streams : s \in Seq(Range(s))
    /\ FileSizes \subseteq Nat
    /\ BodySizes \subseteq Nat

VARIABLES
    http,          \* where operator() stands
    headerLines,
    fileLength,          \* the length of the file that is asked for
    name,          \* whether its name still stands for it, for another, or for none
    fileSize,      \* sendFile's
    response       \* what is handed to send

handlerVars == <<http, headerLines, fileLength, name, fileSize, response>>

httpVars == <<socketVars, handlerVars>>

HttpStart(s) ==
    /\ SocketStart(s)
    /\ http = "called"
    /\ headerLines = <<>>
    /\ fileLength \in FileSizes
    /\ name \in {"file", "none"}
    /\ fileSize = 0
    /\ response = <<>>

HttpInit == \E s \in Streams : HttpStart(s)

-----------------------------------------------------------------------------
(* HttpRequest::create                                                     *)

Positions(line, c) == {i \in 1 .. Len(line) : line[i] = c}

\* The first line has three words, of which any may be empty.
WellFormed(ls) == ls /= <<>> /\ Cardinality(Positions(ls[1], " ")) = 2

-----------------------------------------------------------------------------
(* operator()                                                              *)

HandlerCall ==
    /\ http = "called"
    /\ ReceiveLine
    /\ http' = "header"
    /\ UNCHANGED <<iClosed, toSend, wire, headerLines, fileLength, name, fileSize, response>>

HandlerReceives ==
    /\ http = "header"
    /\ LineStep
    /\ UNCHANGED <<iClosed, toSend, wire, handlerVars>>

\* Mutant of HeaderLine: an empty line does not end the header.
HeaderLineAny ==
    /\ http = "header"
    /\ reading = "got"
    /\ headerLines' = Append(headerLines, aLine)
    /\ ReceiveLine
    /\ UNCHANGED <<iClosed, toSend, wire, http, fileLength, name, fileSize, response>>

HeaderLine ==
    /\ http = "header"
    /\ reading = "got"
    /\ aLine /= <<>>
    /\ headerLines' = Append(headerLines, aLine)
    /\ ReceiveLine
    /\ UNCHANGED <<iClosed, toSend, wire, http, fileLength, name, fileSize, response>>

ErrorPage == <<[code |-> 888, length |-> 1], "e">>

\* responseError up to send.
RespondError ==
    /\ http' = "send"
    /\ response' = ErrorPage
    /\ toSend' = ErrorPage

\* No line at all is taken for a time-out, and a first line that is not three
\* words is an error too.
HeaderOver ==
    /\ http = "header"
    /\ reading = "failed" \/ (reading = "got" /\ aLine = <<>>)
    /\ IF WellFormed(headerLines)
         THEN http' = "handle" /\ UNCHANGED <<toSend, response>>
         ELSE RespondError
    /\ UNCHANGED <<readVars, iClosed, wire, headerLines, fileLength, name, fileSize>>

\* handleRequest, of the derived class, receives what follows the header.
HandleReceive ==
    /\ http = "handle"
    /\ \E size \in BodySizes : Receive(size)
    /\ UNCHANGED <<iClosed, toSend, wire, handlerVars>>

\* It returns without a response.
HandleReturn ==
    /\ http = "handle"
    /\ http' = "over"
    /\ UNCHANGED <<socketVars, headerLines, fileLength, name, fileSize, response>>

-----------------------------------------------------------------------------
(* sendFile, called by handleRequest; another process has its hands on the *)
(* file                                                                    *)

SendFileOpen ==
    /\ http = "handle"
    /\ IF name = "none"
         THEN RespondError
         ELSE http' = "opened" /\ UNCHANGED <<toSend, response>>
    /\ UNCHANGED <<readVars, iClosed, wire, headerLines, fileLength, name, fileSize>>

\* file_size goes by the name, and throws when there is none any more.
SendFileSize ==
    /\ http = "opened"
    /\ IF name = "none"
         THEN http' = "thrown" /\ UNCHANGED fileSize
         ELSE http' = "sized" /\ fileSize' \in IF name = "file" THEN {fileLength} ELSE FileSizes
    /\ UNCHANGED <<socketVars, headerLines, fileLength, name, response>>

\* What was opened is read, fileSize bytes of it if it has them.
SendFileRead ==
    /\ http = "sized"
    /\ IF fileLength < fileSize
         THEN RespondError
         ELSE LET page == <<[code |-> 200, length |-> fileSize]>>
                            \o [i \in 1 .. fileSize |-> i]
              IN  http' = "send" /\ response' = page /\ toSend' = page
    /\ UNCHANGED <<readVars, iClosed, wire, headerLines, fileLength, name, fileSize>>

FileChanges ==
    /\ http \in {"opened", "sized"}
    /\ \/ fileLength' \in FileSizes /\ UNCHANGED name
       \/ name' \in {"other", "none"} /\ UNCHANGED fileLength
    /\ UNCHANGED <<socketVars, http, headerLines, fileSize, response>>

-----------------------------------------------------------------------------
HandlerSends ==
    /\ http = "send"
    /\ SendSome
    /\ UNCHANGED handlerVars

\* send is through, or posixSend fails: the result is not looked at.  Only an
\* error closes the connection; after a file the caller does, by letting it go.
SendReturns ==
    /\ http = "send"
    /\ http' = "over"
    /\ IF response[1].code = 200
         THEN toSend' = <<>> /\ UNCHANGED <<readVars, iClosed, wire>>
         ELSE Close
    /\ UNCHANGED <<headerLines, fileLength, name, fileSize, response>>

HttpNext ==
    \/ HandlerCall
    \/ HandlerReceives
    \/ HeaderLine
    \/ HeaderOver
    \/ HandleReceive
    \/ HandleReturn
    \/ SendFileOpen
    \/ SendFileSize
    \/ SendFileRead
    \/ FileChanges
    \/ HandlerSends
    \/ SendReturns

HttpSpec == HttpInit /\ [][HttpNext]_httpVars

-----------------------------------------------------------------------------
\* What the header of a stream is: the lines before the first empty one, or all.
HeaderOf(ls) ==
    SubSeq(ls, 1, Min({k - 1 : k \in {i \in DOMAIN ls : ls[i] = <<>>}} \cup {Len(ls)}))

\* The request is made of the whole header and of nothing else, unless the peer
\* was silent for 100 ms in it.
RequestIsWhole ==
    http \notin {"called", "header"} /\ ~silent => headerLines = HeaderOf(LinesOf(stream))

\* The peer gets a prefix of one response, and a response with 200 has as many
\* bytes as it announces, whatever happens to the file meanwhile.
ResponseIsWhole ==
    /\ IsPrefix(wire, response)
    /\ response /= <<>> => response[1].length = Len(response) - 1

ExchangeIsWhole == RequestIsWhole /\ ResponseIsWhole
=============================================================================
