-------------------------------- MODULE HlsSlots --------------------------------
(***************************************************************************)
(* The channel table of src/net/dshlsbw.c: g_hls.cls, in which every call  *)
(* of the bandwidth estimator looks its channel up.                        *)
(*                                                                         *)
(* A channel's home is its number modulo the size of the table.  A home    *)
(* that is free is taken without looking further; only when another        *)
(* channel is at home there is the table searched, first for the channel   *)
(* and else for a slot that is free or idle.  What a slot records about    *)
(* its channel is reduced to large_samples, the number of large chunks, and *)
(* est, the channel that the latest estimate in it was made for.           *)
(*                                                                         *)
(* The table has no lock.  A call is one step here; HlsCalls takes the     *)
(* calls that send apart.                                                  *)
(***************************************************************************)
EXTENDS Integers, FiniteSetsExt

CONSTANTS Channels,           \* bound: the channels in use, numbers
          MAX_STREAMS_SLOT,   \* 5000 in the code
          MAX_CHANNEL_ID,     \* 65535
          IDLE_TIME_MS,       \* 600000, in ticks here
          MaxTime,            \* bound
          MaxSamples          \* bound

ASSUME SlotsAssumption ==
    /\ Channels \subseteq Nat
    /\ MAX_STREAMS_SLOT \in Nat \ {0}
    /\ MAX_CHANNEL_ID \in Nat
    /\ IDLE_TIME_MS \in Nat
    /\ MaxTime \in Nat \ {0}
    /\ MaxSamples \in Nat

VARIABLES
    cls,       \* the table
    tnow,      \* hs_getmstime; 0 only if the first call starts a second
    deletes,   \* history: whether hls_delete_channel was ever called
    overlap    \* history: whether a lookup ever fell into another (HlsCalls)

slotVars == <<cls, tnow, deletes, overlap>>

Slots == 0 .. MAX_STREAMS_SLOT - 1

Free == [key |-> 0, tsaccess |-> 0, large_samples |-> 0, est |-> 0]

SlotsInit ==
    /\ cls = [s \in Slots |-> Free]
    /\ tnow \in {0, 1}
    /\ deletes = FALSE
    /\ overlap = FALSE

Tick ==
    /\ tnow < MaxTime
    /\ tnow' = tnow + 1
    /\ UNCHANGED <<cls, deletes, overlap>>

-----------------------------------------------------------------------------
(* hs_get_client_slot                                                      *)

NoSlot == MAX_STREAMS_SLOT

Idle(s) == cls[s].tsaccess < tnow /\ tnow - cls[s].tsaccess > IDLE_TIME_MS

\* Mutant of Usable: with nothing better, the home is taken over.
UsableOrHome(s) == cls[s].key = 0 \/ cls[s].tsaccess < tnow

Usable(s) == cls[s].key = 0 \/ Idle(s)

Of(channel) == {s \in Slots : cls[s].key = channel}

\* Mutant of SlotFor: the search ends at the first usable slot.
SlotForFirst(channel) ==
    LET home == channel % MAX_STREAMS_SLOT
        candidates == Of(channel) \cup {s \in Slots : Usable(s)}
    IN  IF cls[home].key \in {0, channel} THEN home
        ELSE IF candidates /= {} THEN Min(candidates)
        ELSE NoSlot

\* Where the search ends: at home, else at the channel's slot, else at the first
\* usable one.
SlotFor(channel) ==
    LET home == channel % MAX_STREAMS_SLOT
        usable == {s \in Slots : Usable(s)}
    IN  IF cls[home].key \in {0, channel} THEN home
        ELSE IF Of(channel) /= {} THEN Min(Of(channel))
        ELSE IF usable /= {} THEN Min(usable)
        ELSE NoSlot

\* What the slot holds when the lookup returns it: the channel's record, unless
\* the slot was another's, or free, or the channel itself was idle for too long.
Claimed(s, channel) ==
    IF cls[s].key = channel /\ ~Idle(s)
      THEN [cls[s] EXCEPT !.tsaccess = tnow]
      ELSE [Free EXCEPT !.key = channel, !.tsaccess = tnow]

\* GET_CSI_SLOT_CHANNEL: the calls that get a slot.
Accepts(channel) ==
    /\ channel > 0
    /\ channel < MAX_CHANNEL_ID
    /\ tnow /= 0
    /\ SlotFor(channel) /= NoSlot

-----------------------------------------------------------------------------
(* The calls                                                               *)

\* The call returns -1.
Refused(channel) ==
    /\ ~Accepts(channel)
    /\ UNCHANGED slotVars

\* hls_get_predicted_bps_advice, hls_get_initial_probe_bw, hls_update_switched,
\* and hls_estimate_bw when it counts no large sample.
Access(channel) ==
    /\ Accepts(channel)
    /\ cls' = [cls EXCEPT ![SlotFor(channel)] = Claimed(SlotFor(channel), channel)]
    /\ UNCHANGED <<tnow, deletes, overlap>>

\* hls_estimate_bw for much data.
EstimateLarge(channel) ==
    /\ Accepts(channel)
    /\ Claimed(SlotFor(channel), channel).large_samples < MaxSamples
    /\ cls' = [cls EXCEPT ![SlotFor(channel)] =
                  [Claimed(SlotFor(channel), channel) EXCEPT !.large_samples = @ + 1,
                                                             !.est = channel]]
    /\ UNCHANGED <<tnow, deletes, overlap>>

\* The slot that the lookup finds, or has just taken, is freed.  Only its key is
\* cleared in the code: nobody reads what stays behind.
DeleteChannel(channel) ==
    /\ Accepts(channel)
    /\ cls' = [cls EXCEPT ![SlotFor(channel)] = Free]
    /\ deletes' = TRUE
    /\ UNCHANGED <<tnow, overlap>>

SlotsNext ==
    \/ Tick
    \/ \E ch \in Channels :
          \/ Refused(ch)
          \/ Access(ch)
          \/ EstimateLarge(ch)
          \/ DeleteChannel(ch)

SlotsSpec == SlotsInit /\ [][SlotsNext]_slotVars

-----------------------------------------------------------------------------
\* Every variable keeps its type; a slot in use has a valid channel and the time
\* of a call.
SlotsTypeOK ==
    /\ \A s \in Slots :
          /\ cls[s].key \in {0} \cup {ch \in Channels : ch > 0 /\ ch < MAX_CHANNEL_ID}
          /\ cls[s].tsaccess \in 0 .. tnow
          /\ cls[s].large_samples \in 0 .. MaxSamples
          /\ cls[s].est \in Channels \cup {0}
          /\ cls[s].key /= 0 => cls[s].tsaccess > 0
    /\ tnow \in 0 .. MaxTime
    /\ deletes \in BOOLEAN
    /\ overlap \in BOOLEAN

\* Two channels with the same home get along: as long as no channel is deleted and
\* no lookup falls into another, a channel is in one slot, however slots go idle
\* and are taken over.
OneSlot ==
    ~deletes /\ ~overlap => \A s, t \in Slots :
        cls[s].key = cls[t].key /\ cls[s].key /= 0 => s = t

\* A call never takes the slot of another channel that has been active in the
\* last IDLE_TIME_MS: it is refused when the table is full.  And as long as no
\* channel is deleted an active one finds its record again, with all its samples:
\* a deletion may free the home of a channel that lives elsewhere, and then its
\* next call begins a new record there.
ActiveKept ==
    [][~overlap' => \A s \in Slots, ch \in Channels :
          cls[s].key = ch /\ ch /= 0 /\ tnow - cls[s].tsaccess <= IDLE_TIME_MS =>
             /\ \/ cls'[s].key = ch
                   /\ cls'[s].large_samples >= cls[s].large_samples
                \/ deletes' /\ cls'[s].key = 0
             /\ ~deletes' => SlotFor(ch)' = s]_slotVars
=============================================================================
