---------------------------------- MODULE Hls ----------------------------------
(***************************************************************************)
(* The whole of src/net/dshlsbw.c: the channel table with the threads that *)
(* send (HlsCalls, over HlsSlots), and the advice on the rate of one       *)
(* channel (HlsAdvice), which have no variable in common.                  *)
(***************************************************************************)
EXTENDS HlsCalls, HlsAdvice

BandwidthSpec == HlsSpec /\ AdviceSpec

\* Every variable of the three modules has its type, and a channel has one slot
\* (dshlsbw.c:403): two slots would split its samples between two estimates.
HlsWellFormed == SlotsTypeOK /\ CallsTypeOK /\ AdviceTypeOK /\ OneSlot
=============================================================================
