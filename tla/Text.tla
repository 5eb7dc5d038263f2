---------------------------------- MODULE Text ----------------------------------
(***************************************************************************)
(* Text that is written by one side and read by another: the command line  *)
(* that utl::strToArgv takes apart for Shell::launch, and the URL that     *)
(* net::encodeUrl and net::decodeUrl carry through (src/utl/String.cpp,    *)
(* src/net/Misc.cpp).  A character is its code, 0 .. 255.                  *)
(***************************************************************************)
EXTENDS Integers, SequencesExt

CONSTANTS ArgLists,   \* bound: lists of arguments to be quoted
          Texts,      \* bound: command lines of any form
          Urls        \* bound

Chars == 0 .. 255

ASSUME TextAssumption ==
    /\ ArgLists \subseteq Seq(Seq(Chars))
    /\ Texts \cup Urls \subseteq Seq(Chars)

VARIABLES
    job,            \* "argv", "encode", "decode" or "done"
    text,           \* what is left of the command line; the URL
    original,       \* history: the arguments, or the URL, if something is to come back
    kind,           \* history: "args", "any" command line, or "url"
    currentState,   \* strToArgv's "OutOfArg", "InArg" or "InArgQuote"
    currentQuoteChar,
    currentArg,
    aArgv,
    result          \* what strToArgv returns

textVars == <<job, text, original, kind, currentState, currentQuoteChar, currentArg,
              aArgv, result>>

Blank == 32
Tab == 9
Escape == 92
Quotes == {39, 34}
Special == {Blank, Tab, Escape} \cup Quotes

-----------------------------------------------------------------------------
(* Ways of writing an argument, by what the comments of strToArgv say of   *)
(* quotes and escapes                                                      *)

Escaped(arg, these) ==
    FlattenSeq([i \in DOMAIN arg |->
        IF arg[i] \in these THEN <<Escape, arg[i]>> ELSE <<arg[i]>>])

Written(arg) ==
    {<<q>> \o Escaped(arg, {q, Escape}) \o <<q>> : q \in Quotes}
        \cup IF arg = <<>> THEN {} ELSE {Escaped(arg, Special)}

\* The command lines that stand for a list of arguments, with blanks around them.
CommandLines(args) ==
    {FlattenSeq([k \in DOMAIN args |-> <<Blank>> \o w[k]]) \o <<Tab>> :
        w \in {v \in [DOMAIN args -> UNION {Written(args[k]) : k \in DOMAIN args}] :
                  \A k \in DOMAIN args : v[k] \in Written(args[k])}}

TextStart(j, s, from, k) ==
    /\ job = j
    /\ text = s
    /\ original = from
    /\ kind = k
    /\ currentState = "OutOfArg"
    /\ currentQuoteChar = 0
    /\ currentArg = <<>>
    /\ aArgv = <<>>
    /\ result = TRUE

TextInit ==
    \/ \E args \in ArgLists : \E s \in CommandLines(args) : TextStart("argv", s, args, "args")
    \/ \E s \in Texts : TextStart("argv", s, <<>>, "any")
    \/ \E s \in Urls : TextStart("encode", s, s, "url")

-----------------------------------------------------------------------------
(* strToArgv, one turn of its loop for each kind of character              *)

ArgvReads(chars) == job = "argv" /\ text /= <<>> /\ text[1] \in chars

ArgBegun == IF currentState = "OutOfArg" THEN <<>> ELSE currentArg

ArgvKeeps == UNCHANGED <<job, original, kind, result>>

ArgvQuote ==
    /\ ArgvReads(Quotes)
    /\ IF currentState /= "InArgQuote"
         THEN /\ currentState' = "InArgQuote"
              /\ currentQuoteChar' = text[1]
              /\ currentArg' = ArgBegun
         ELSE /\ IF text[1] = currentQuoteChar
                   THEN currentState' = "InArg" /\ UNCHANGED currentArg
                   ELSE currentArg' = Append(currentArg, text[1]) /\ UNCHANGED currentState
              /\ UNCHANGED currentQuoteChar
    /\ text' = Tail(text)
    /\ UNCHANGED aArgv /\ ArgvKeeps

ArgvBlank ==
    /\ ArgvReads({Blank, Tab})
    /\ aArgv' = IF currentState = "InArg" THEN Append(aArgv, currentArg) ELSE aArgv
    /\ currentArg' = IF currentState = "InArgQuote" THEN Append(currentArg, text[1])
                                                    ELSE currentArg
    /\ currentState' = IF currentState = "InArg" THEN "OutOfArg" ELSE currentState
    /\ text' = Tail(text)
    /\ UNCHANGED currentQuoteChar /\ ArgvKeeps

\* Mutant of ArgvEscape: an escape outside of an argument begins none.
ArgvEscapeOutside ==
    /\ ArgvReads({Escape})
    /\ currentArg' = Append(ArgBegun, IF Len(text) = 1 THEN Escape ELSE text[2])
    /\ text' = SubSeq(text, 3, Len(text))
    /\ UNCHANGED <<currentState, currentQuoteChar, aArgv>> /\ ArgvKeeps

\* The next character is taken as it is.  At the end there is none to read, and c
\* still holds the escape.
ArgvEscape ==
    /\ ArgvReads({Escape})
    /\ currentArg' = Append(ArgBegun, IF Len(text) = 1 THEN Escape ELSE text[2])
    /\ currentState' = IF currentState = "OutOfArg" THEN "InArg" ELSE currentState
    /\ text' = SubSeq(text, 3, Len(text))
    /\ UNCHANGED <<currentQuoteChar, aArgv>> /\ ArgvKeeps

ArgvOther ==
    /\ ArgvReads(Chars \ Special)
    /\ currentArg' = Append(ArgBegun, text[1])
    /\ currentState' = IF currentState = "OutOfArg" THEN "InArg" ELSE currentState
    /\ text' = Tail(text)
    /\ UNCHANGED <<currentQuoteChar, aArgv>> /\ ArgvKeeps

\* An open quote is an error.
ArgvEnd ==
    /\ job = "argv"
    /\ text = <<>>
    /\ aArgv' = IF currentState = "InArg" THEN Append(aArgv, currentArg) ELSE aArgv
    /\ result' = (currentState /= "InArgQuote")
    /\ job' = "done"
    /\ UNCHANGED <<text, original, kind, currentState, currentQuoteChar, currentArg>>

-----------------------------------------------------------------------------
(* encodeUrl and decodeUrl                                                 *)

Percent == 37

Alnum == (48 .. 57) \cup (65 .. 90) \cup (97 .. 122)

\* ./@:-_;&=~!()*'?
Plain == Alnum \cup {46, 47, 64, 58, 45, 95, 59, 38, 61, 126, 33, 40, 41, 42, 39, 63}

HexDigit(n) == IF n < 10 THEN 48 + n ELSE 55 + n

\* "%%%02X" of a char: one that is negative is widened to an int, with its sign.
EncodedChar(c) ==
    <<Percent>>
        \o (IF c < 128 THEN <<>> ELSE [i \in 1 .. 6 |-> HexDigit(15)])
        \o <<HexDigit(c \div 16), HexDigit(c % 16)>>

EncodeUri(s) ==
    FlattenSeq([i \in DOMAIN s |-> IF s[i] \in Plain THEN <<s[i]>> ELSE EncodedChar(s[i])])

HexValue(d) == IF d <= 57 THEN d - 48 ELSE IF d <= 70 THEN d - 55 ELSE d - 87

IsHex(d) == d \in (48 .. 57) \cup (65 .. 70) \cup (97 .. 102)

IsEscape(s, i) == i + 2 <= Len(s) /\ IsHex(s[i + 1]) /\ IsHex(s[i + 2])

Percents(s) == {i \in DOMAIN s : s[i] = Percent}

\* decodeUriOnce returns true: there is something to decode, and nothing else that
\* begins with a percent sign.
Decodes(s) == Percents(s) /= {} /\ \A i \in Percents(s) : IsEscape(s, i)

Decoded(s) ==
    LET from[i \in 1 .. Len(s) + 3] ==
            IF i > Len(s) THEN <<>>
            ELSE IF s[i] = Percent
              THEN <<16 * HexValue(s[i + 1]) + HexValue(s[i + 2])>> \o from[i + 3]
            ELSE <<s[i]>> \o from[i + 1]
    IN  from[1]

\* A URL with a percent sign is taken to be encoded.
EncodeUrl ==
    /\ job = "encode"
    /\ text' = IF Percents(text) /= {} THEN text ELSE EncodeUri(text)
    /\ job' = "decode"
    /\ UNCHANGED <<original, kind, currentState, currentQuoteChar, currentArg, aArgv, result>>

\* One decodeUriOnce of decodeUrl, which goes on until it returns false.
DecodeOnce ==
    /\ job = "decode"
    /\ IF Decodes(text)
         THEN text' = Decoded(text) /\ UNCHANGED job
         ELSE job' = "done" /\ UNCHANGED text
    /\ UNCHANGED <<original, kind, currentState, currentQuoteChar, currentArg, aArgv, result>>

TextNext ==
    \/ ArgvQuote
    \/ ArgvBlank
    \/ ArgvEscape
    \/ ArgvOther
    \/ ArgvEnd
    \/ EncodeUrl
    \/ DecodeOnce

TextSpec == TextInit /\ [][TextNext]_textVars

-----------------------------------------------------------------------------
\* strToArgv gives back the arguments that a command line was written of, however
\* each of them was quoted, empty ones too.
ArgvRoundTrip == job = "done" /\ kind = "args" => result /\ aArgv = original

\* decodeUrl gives back what encodeUrl was given, if that is ASCII without a percent
\* sign, although it decodes as often as it can.
UrlRoundTrip ==
    LET faithful == \A i \in DOMAIN original :
                        original[i] < 128 /\ original[i] /= Percent
    IN  job = "done" /\ kind = "url" => (faithful => text = original)

TextRoundTrip == ArgvRoundTrip /\ UrlRoundTrip
=============================================================================
