--------------------------------- MODULE MCHls ---------------------------------
(***************************************************************************)
(* The three sides of dshlsbw.c, each by itself in the behaviours whose    *)
(* part names it:                                                          *)
(*   "slots"   three slots for four valid channels, two of which share the *)
(*             home 1 (4 and 7) so that one of them lives at another       *)
(*             channel's home; 0 and 9 are not valid; an idle channel      *)
(*             loses its slot after two ticks;                             *)
(*   "calls"   the same table with two threads that send for the channels  *)
(*             4 and 7;                                                    *)
(*   "advice"  a channel with four rates and small thresholds.             *)
(***************************************************************************)
EXTENDS Hls, TLC

VARIABLE part

MCChannels == {0, 4, 5, 6, 7, 9}
MCSlot == 3
MCMaxChannelId == 9
MCIdle == 1
MCMaxTime == 4
MCMaxSamples == 2

CONSTANTS s1, s2
MCSenders == {s1, s2}
MCSenderChannels == {4, 7}
MCChunkSizes == {1, 2}
MCMinTx == 1
MCLargeSize == 1
MCMaxSleep == 1

MCRates == <<1024000, 0, 256000, 128000, 512000, 999000>>
MCNumBitrates == 5
MCRtts == {20, 200}
MCBwes == {0, 256000}
MCPlayerRates == {128000, 512000}
MCFirst == 1
MCDec == 1
MCInc == 2
MCMore == 1
MCTried == 0
MCFreq == 1
MCMaxAdviceSamples == 4
MCMaxSwitches == 3

MCSymmetry == Permutations(MCSenders)

MCVars == <<part, hlsVars, adviceVars>>

MCInit ==
    /\ part \in {"slots", "calls", "advice"}
    /\ HlsInit
    /\ AdviceInit
    /\ part /= "slots" => tnow = 1
    /\ part /= "advice" => curbps = 128000

MCSlots == part = "slots" /\ SlotsNext /\ UNCHANGED <<part, callVars, adviceVars>>

\* Once a call has been overtaken the properties promise nothing any more: the
\* calls under way come to their end.
MCOther ==
    /\ ~unsure
    /\ \/ tnow < 3 /\ HlsTick
       \/ \E channel \in SenderChannels : OtherCall(channel) \/ OtherDelete(channel)

MCSender ==
    /\ \E t \in Senders : SenderStep(t)
    /\ unsure => \A t \in Senders : sender[t].pc = "idle" => sender'[t].pc = "idle"

MCCalls ==
    /\ part = "calls"
    /\ MCOther \/ MCSender
    /\ \A s \in Slots : cls'[s].large_samples <= 1
    /\ UNCHANGED <<part, adviceVars>>

MCAdvice == part = "advice" /\ AdviceNext /\ UNCHANGED <<part, hlsVars>>

MCNext == MCSlots \/ MCCalls \/ MCAdvice

MCSpec == MCInit /\ [][MCNext]_MCVars
=============================================================================
