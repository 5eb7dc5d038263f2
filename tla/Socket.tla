--------------------------------- MODULE Socket ---------------------------------
(***************************************************************************)
(* Reading and writing of src/net/Socket.cpp on a connected TcpSocket:     *)
(* receiveLine with the internal buffer that it cuts lines from, receive   *)
(* that empties this buffer first, and send.                               *)
(*                                                                         *)
(* What the peer sends is a sequence of characters; the kernel hands it    *)
(* over in pieces of any size, or in time or not.  receiveLine is called   *)
(* without a time limit, as everywhere in the repository.                  *)
(***************************************************************************)
EXTENDS Integers, SequencesExt, FiniteSetsExt

CONSTANT READ_LINE_CHUNCK_SIZE   \* 512

ASSUME SocketAssumption == READ_LINE_CHUNCK_SIZE \in Nat \ {0}

VARIABLES
    stream,            \* all that the peer sends before it closes
    taken,             \* how much of it recv has returned
    iInternalBuffer,
    iLastLineEndChar,
    aLine,             \* the line that receiveLine puts together
    reading,           \* where receiveLine stands, or what it has returned
    lines,             \* history: the lines it has returned
    body,              \* history: what receive has returned
    silent,            \* history: the peer was silent for 100 ms inside a line
    iClosed,
    toSend, wire       \* what send has left to do, and what it has sent in all

socketVars == <<stream, taken, iInternalBuffer, iLastLineEndChar, aLine, reading,
                lines, body, silent, iClosed, toSend, wire>>

readVars == <<stream, taken, iInternalBuffer, iLastLineEndChar, aLine, reading,
              lines, body, silent>>

Eol == {"CR", "LF"}

SocketStart(s) ==
    /\ stream = s
    /\ taken = 0
    /\ iInternalBuffer = <<>>
    /\ iLastLineEndChar = "NUL"
    /\ aLine = <<>>
    /\ reading = "idle"
    /\ lines = <<>>
    /\ body = <<>>
    /\ silent = FALSE
    /\ iClosed = FALSE
    /\ toSend = <<>>
    /\ wire = <<>>

-----------------------------------------------------------------------------
(* receiveLine                                                             *)

ReceiveLine ==
    /\ reading \in {"idle", "got"}
    /\ aLine' = <<>>
    /\ reading' = "extract"
    /\ UNCHANGED <<stream, taken, iInternalBuffer, iLastLineEndChar, lines, body, silent>>

\* The second character of a CR LF or LF CR whose first one ended a line.
Skipped == IF {iLastLineEndChar, iInternalBuffer[1]} = Eol THEN 1 ELSE 0

\* findLineEnd: the first end of line that is not skipped, or one past the buffer.
LineEnd ==
    Min({i \in Skipped + 1 .. Len(iInternalBuffer) : iInternalBuffer[i] \in Eol}
            \cup {Len(iInternalBuffer) + 1})

\* Mutant of ExtractNothing: an empty buffer is taken for one without an end of line.
ExtractNothingForgets ==
    /\ reading = "extract"
    /\ iInternalBuffer = <<>>
    /\ iLastLineEndChar' = "NUL"
    /\ reading' = "receive"
    /\ UNCHANGED <<stream, taken, iInternalBuffer, aLine, lines, body, silent>>

ExtractNothing ==
    /\ reading = "extract"
    /\ iInternalBuffer = <<>>
    /\ reading' = "receive"
    /\ UNCHANGED <<stream, taken, iInternalBuffer, iLastLineEndChar, aLine, lines,
                   body, silent>>

\* extractLineFromInternalBuffer when there is something in the buffer.
ExtractLine ==
    /\ reading = "extract"
    /\ iInternalBuffer /= <<>>
    /\ LET found == LineEnd <= Len(iInternalBuffer)
           line == aLine \o SubSeq(iInternalBuffer, Skipped + 1, LineEnd - 1)
       IN  /\ aLine' = line
           /\ iLastLineEndChar' = IF found THEN iInternalBuffer[LineEnd] ELSE "NUL"
           /\ iInternalBuffer' = SubSeq(iInternalBuffer, LineEnd + 1, Len(iInternalBuffer))
           /\ reading' = IF found THEN "got" ELSE "receive"
           /\ lines' = IF found THEN Append(lines, line) ELSE lines
    /\ UNCHANGED <<stream, taken, body, silent>>

\* posixReceive returns the next piece.
ReceiveChunk ==
    /\ reading = "receive"
    /\ \E n \in 1 .. Min({READ_LINE_CHUNCK_SIZE, Len(stream) - taken}) :
          /\ iInternalBuffer' = SubSeq(stream, taken + 1, taken + n)
          /\ taken' = taken + n
    /\ reading' = "extract"
    /\ UNCHANGED <<stream, iLastLineEndChar, aLine, lines, body, silent>>

\* posixReceive fails: nothing comes for 100 ms, or the peer has closed.  The
\* buffer keeps the size it was given for the chunk.
ReceiveNothing ==
    /\ reading = "receive"
    /\ iInternalBuffer' = [i \in 1 .. READ_LINE_CHUNCK_SIZE |-> "NUL"]
    /\ reading' = "failed"
    /\ silent' = (taken < Len(stream))
    /\ UNCHANGED <<stream, taken, iLastLineEndChar, aLine, lines, body>>

LineStep == ExtractNothing \/ ExtractLine \/ ReceiveChunk \/ ReceiveNothing

-----------------------------------------------------------------------------
(* receive: size bytes, those of the buffer first; recv is asked only for  *)
(* the rest, and may return less or fail                                   *)

Receive(size) ==
    LET copied == Min({size, Len(iInternalBuffer)})
    IN  \E n \in 0 .. Min({size - copied, Len(stream) - taken}) :
            /\ body' = body \o SubSeq(iInternalBuffer, 1, copied)
                            \o SubSeq(stream, taken + 1, taken + n)
            /\ taken' = taken + n
            /\ iInternalBuffer' = SubSeq(iInternalBuffer, copied + 1, Len(iInternalBuffer))
            /\ UNCHANGED <<stream, iLastLineEndChar, aLine, reading, lines, silent>>

-----------------------------------------------------------------------------
(* send, and close                                                         *)

\* posixSend takes n of what is left.
SendSome ==
    /\ \E n \in 1 .. Len(toSend) :
          /\ wire' = wire \o SubSeq(toSend, 1, n)
          /\ toSend' = SubSeq(toSend, n + 1, Len(toSend))
    /\ UNCHANGED <<readVars, iClosed>>

Close ==
    /\ iClosed' = TRUE
    /\ toSend' = <<>>
    /\ UNCHANGED <<readVars, wire>>

-----------------------------------------------------------------------------
(* The lines of a stream, by their definition.  In a run CR LF CR LF ...   *)
(* the characters belong together two by two from where the run begins.    *)

Adjoins(s, i) == i \in 2 .. Len(s) /\ {s[i - 1], s[i]} = Eol

SecondOfPair(s, i) ==
    \E start \in 1 .. i - 1 :
        /\ ~Adjoins(s, start)
        /\ \A j \in start + 1 .. i : Adjoins(s, j)
        /\ (i - start) % 2 = 1

Ends(s) == {i \in 1 .. Len(s) : s[i] \in Eol /\ ~SecondOfPair(s, i)}

EndsUpTo(s, i) == {end \in Ends(s) : end <= i}

\* The ends of the lines, in order.
LineEnds(s) ==
    [k \in 1 .. Cardinality(Ends(s)) |->
        CHOOSE i \in Ends(s) : Cardinality(EndsUpTo(s, i)) = k]

\* Where a line starts that comes behind this end, or with 0 at the beginning.
StartBehind(s, end) == IF SecondOfPair(s, end + 1) THEN end + 2 ELSE end + 1

LinesOf(s) ==
    LET ends == LineEnds(s)
        Start(k) == StartBehind(s, IF k = 1 THEN 0 ELSE ends[k - 1])
    IN  [k \in 1 .. Len(ends) |-> SubSeq(s, Start(k), ends[k] - 1)]

\* receiveLine returns the lines of the stream however the kernel cuts it, and
\* receive goes on right behind the character that ended the last of them: nothing
\* is lost or read twice between the buffer and the socket.  After a receiveLine
\* that has failed the buffer is not the peer's any more.
LinesAreTheStream ==
    /\ IsPrefix(lines, LinesOf(stream))
    /\ reading = "got" =>
          IsPrefix(SubSeq(stream, 1, LineEnds(stream)[Len(lines)]) \o body, stream)
=============================================================================
