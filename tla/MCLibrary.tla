------------------------------- MODULE MCLibrary -------------------------------
(***************************************************************************)
(* The parts of the library that stand by themselves, each in the          *)
(* behaviours whose part names it:                                         *)
(*   "http"   every stream of five characters, and two requests, in pieces *)
(*            of up to three;                                              *)
(*   "ports"  ranges of up to three ports, an empty one, and one that the  *)
(*            counter never gets to the end of, in shorts of 2 bits;       *)
(*   "log"    two processes, and logs kept for one tick;                   *)
(*   "text"   lists of up to two arguments, and other command lines; URLs  *)
(*            with every kind of character.                                *)
(***************************************************************************)
EXTENDS HttpHandler, PortPool, LogDir, Text

VARIABLE part

MCChunk == 3
MCFileSizes == {0, 2}
MCBodySizes == {1, 3}
MCStreams ==
    SeqOf({"a", "CR", "LF"}, 5)
        \cup {<<"a", " ", "a", " ", "a", "CR", "LF", "b", "CR", "LF", "CR", "LF", "b", "b">>,
              <<"a", " ", "a", " ", "LF", "b", "CR", "b", "CR", "CR", "b">>}

MCMaxShort == 1
MCRanges == {<<-2, 0>>, <<1, 0>>, <<0, 1>>}

CONSTANTS p1, p2
MCProcesses == {p1, p2}
MCKeep == 1
MCMaxLogTime == 3

MCArg == SeqOf({97, Blank, Escape, 34}, 2) \cup {<<39, 34>>}
MCArgLists == {<<a>> : a \in MCArg} \cup {<<a, b>> : a \in MCArg, b \in {<<>>, <<97>>, <<39>>}}
MCTexts == SeqOf({97, Blank, Escape, 34, 39}, 4)
MCUrls == SeqOf({52, 49, 32, Percent, 195}, 4) \cup {<<Percent, 50, 53, 52, 49>>}

MCSymmetry == Permutations(MCProcesses)

MCVars == <<part, httpVars, poolVars, logVars, textVars>>

\* The other parts stay as they begin.
MCInit ==
    /\ part \in {"http", "ports", "log", "text"}
    /\ IF part = "http" THEN HttpInit ELSE HttpStart(<<>>) /\ fileLength = 0 /\ name = "none"
    /\ IF part = "ports" THEN PoolInit ELSE PoolStart(<<1, 0>>)
    /\ LogInit
    /\ IF part = "text" THEN TextInit ELSE TextStart("decode", <<>>, <<>>, "url")

MCHttp == part = "http" /\ HttpNext /\ UNCHANGED <<part, poolVars, logVars, textVars>>

MCPorts == part = "ports" /\ PoolNext /\ UNCHANGED <<part, httpVars, logVars, textVars>>

MCLog == part = "log" /\ LogNext /\ UNCHANGED <<part, httpVars, poolVars, textVars>>

MCText == part = "text" /\ TextNext /\ UNCHANGED <<part, httpVars, poolVars, logVars>>

MCNext == MCHttp \/ MCPorts \/ MCLog \/ MCText

MCSpec == MCInit /\ [][MCNext]_MCVars
=============================================================================
