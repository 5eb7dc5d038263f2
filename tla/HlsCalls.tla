-------------------------------- MODULE HlsCalls --------------------------------
(***************************************************************************)
(* hls_send_and_estimate_bw of src/net/dshlsbw.c, called by several        *)
(* threads at once: a chunk is sent in as many pieces as the kernel takes  *)
(* it, and the bandwidth is estimated from the last of them.  For that     *)
(* hls_estimate_bw looks the channel up, waits until the kernel has sent   *)
(* what it holds, and then writes into the record it found, which by then  *)
(* may be another channel's.                                               *)
(*                                                                         *)
(* Each thread sends on a connection of its own.  Other calls into the     *)
(* table are the ones of HlsSlots.                                         *)
(***************************************************************************)
EXTENDS HlsSlots, Sequences

CONSTANTS Senders,
          SenderChannels,       \* bound: what they send for
          ChunkSizes,           \* bound: how much they send at once
          MIN_TX_ESTIMATE_SZ,   \* 1024; smaller chunks are not estimated
          LargeSize,            \* eight times advmss, once that is known
          MaxSleep              \* 30 sleeps of at most 0.5 s, in ticks

ASSUME CallsAssumption ==
    /\ SenderChannels \subseteq Channels
    /\ ChunkSizes \subseteq Nat \ {0}
    /\ MIN_TX_ESTIMATE_SZ \in Nat
    /\ LargeSize \in Nat
    /\ MaxSleep \in 0 .. IDLE_TIME_MS   \* 15 s against 600 s

VARIABLES
    sender,    \* where a thread stands in its call, the call's variables, and the
               \* bytes of the chunk that went over its connection
    unsure     \* history: a lookup was overtaken, or a channel deleted, during an estimate

callVars == <<sender, unsure>>

hlsVars == <<slotVars, callVars>>

Resting == [pc |-> "idle", channel |-> 0, txbytes |-> 0, rest |-> 0, tnow |-> 0,
            wire |-> <<>>, slot |-> NoSlot, claims |-> FALSE]

HlsInit ==
    /\ SlotsInit
    /\ sender = [t \in Senders |-> Resting]
    /\ unsure = FALSE

Looking(t) == sender[t].pc = "found"

-----------------------------------------------------------------------------
(* hls_send_and_estimate_bw and hs_tcp_send.  A send that is to be tried   *)
(* again changes nothing; the size of the send buffer is the kernel's.     *)

SendCall(t, channel, txbytes) ==
    /\ sender[t].pc = "idle"
    /\ sender' = [sender EXCEPT ![t] = [Resting EXCEPT !.pc = "send", !.channel = channel,
                                            !.txbytes = txbytes, !.rest = txbytes]]
    /\ UNCHANGED <<slotVars, unsure>>

\* Mutant of Piece: TcpBuff stays where it was.
PieceFromStart(t, size) == [i \in 1 .. size |-> i]

\* The next piece of the chunk, which is bytes 1 .. txbytes.
Piece(t, size) ==
    LET first == sender[t].txbytes - sender[t].rest + 1
    IN  [i \in 1 .. size |-> first + i - 1]

SendPiece(t, size) ==
    /\ sender[t].pc = "send"
    /\ size < sender[t].rest
    /\ sender' = [sender EXCEPT ![t].rest = @ - size,
                                ![t].wire = @ \o Piece(t, size)]
    /\ UNCHANGED <<slotVars, unsure>>

\* The last piece; its size is what hs_tcp_send returns, and what is estimated.
SendLast(t) ==
    /\ sender[t].pc = "send"
    /\ sender' = [sender EXCEPT
          ![t].wire = @ \o Piece(t, sender[t].rest),
          ![t].pc = IF sender[t].txbytes > MIN_TX_ESTIMATE_SZ THEN "estimate" ELSE "sent"]
    /\ UNCHANGED <<slotVars, unsure>>

\* The call returns: nothing is to be estimated, or the connection has failed.
SendOver(t) ==
    /\ sender[t].pc \in {"send", "sent"}
    /\ sender' = [sender EXCEPT ![t] = Resting]
    /\ UNCHANGED <<slotVars, unsure>>

-----------------------------------------------------------------------------
(* hls_estimate_bw                                                         *)

\* A lookup that falls into another: each decides on what the other changes.
Overtakes(t) == \E u \in Senders \ {t} : Looking(u)

\* GET_CSI_SLOT_CHANNEL up to the choice of the slot.
EstimateFind(t) ==
    /\ sender[t].pc = "estimate"
    /\ LET channel == sender[t].channel
           slot == SlotFor(channel)
       IN  sender' = [sender EXCEPT ![t] =
               IF Accepts(channel)
                 THEN [@ EXCEPT !.pc = "found", !.slot = slot, !.tnow = tnow,
                                !.claims = cls[slot].key /= channel \/ Idle(slot)]
                 ELSE Resting]
    /\ overlap' = (overlap \/ Overtakes(t))
    /\ unsure' = (unsure \/ Overtakes(t))
    /\ UNCHANGED <<cls, tnow, deletes>>

\* The slot becomes, or stays, the channel's.
ClaimedBy(t) ==
    LET s == sender[t].slot
    IN  IF sender[t].claims
          THEN [Free EXCEPT !.key = sender[t].channel, !.tsaccess = sender[t].tnow]
          ELSE [cls[s] EXCEPT !.tsaccess = sender[t].tnow]

\* The slot has been taken by another lookup before this one touches it.
EstimateRefused(t) ==
    /\ Looking(t)
    /\ ClaimedBy(t).key /= sender[t].channel
    /\ cls' = [cls EXCEPT ![sender[t].slot] = ClaimedBy(t)]
    /\ sender' = [sender EXCEPT ![t] = Resting]
    /\ UNCHANGED <<tnow, deletes, overlap, unsure>>

\* The chunk is counted if it is large, as all are until there has been an
\* estimate, and advmss is known.  Then the call ends early, because the
\* chunk is small or the kernel tells nothing of the connection, or it waits.
EstimateClaim(t) ==
    /\ Looking(t)
    /\ ClaimedBy(t).key = sender[t].channel
    /\ LET large == ClaimedBy(t).est = 0 \/ sender[t].rest > LargeSize
       IN  /\ large => ClaimedBy(t).large_samples < MaxSamples
           /\ cls' = [cls EXCEPT ![sender[t].slot] =
                  [ClaimedBy(t) EXCEPT !.large_samples = IF large THEN @ + 1 ELSE @]]
    /\ \/ sender' = [sender EXCEPT ![t] = Resting]
       \/ sender' = [sender EXCEPT ![t] =
                        [Resting EXCEPT !.pc = "asleep", !.channel = sender[t].channel,
                                        !.slot = sender[t].slot, !.tnow = sender[t].tnow]]
    /\ UNCHANGED <<tnow, deletes, overlap, unsure>>

EstimateWake(t) ==
    /\ sender[t].pc = "asleep"
    /\ cls' = [cls EXCEPT ![sender[t].slot].est =
                  IF cls[sender[t].slot].key = 0 THEN 0 ELSE sender[t].channel]
    /\ sender' = [sender EXCEPT ![t] = Resting]
    /\ UNCHANGED <<tnow, deletes, overlap, unsure>>

\* The kernel tells nothing of the connection after the wait.
EstimateFails(t) ==
    /\ sender[t].pc = "asleep"
    /\ sender' = [sender EXCEPT ![t] = Resting]
    /\ UNCHANGED <<slotVars, unsure>>

-----------------------------------------------------------------------------
(* Time, and the other calls, which do not fall into a lookup here         *)

\* Mutant of HlsTick: the wait has no limit.
HlsTickAnyWait ==
    /\ ~\E t \in Senders : Looking(t)
    /\ Tick
    /\ UNCHANGED callVars

\* A lookup takes no time, and the wait after it MaxSleep at most.
HlsTick ==
    /\ \A t \in Senders :
          /\ ~Looking(t)
          /\ sender[t].pc = "asleep" => tnow - sender[t].tnow < MaxSleep
    /\ Tick
    /\ UNCHANGED callVars

OtherCall(channel) ==
    /\ Refused(channel) \/ Access(channel) \/ EstimateLarge(channel)
    /\ ~\E t \in Senders : Looking(t)
    /\ UNCHANGED callVars

OtherDelete(channel) ==
    /\ ~\E t \in Senders : Looking(t)
    /\ DeleteChannel(channel)
    /\ unsure' = (unsure \/ \E t \in Senders :
                      sender[t].pc = "asleep" /\ sender[t].channel = channel)
    /\ UNCHANGED <<sender>>

SenderStep(t) ==
    \/ \E channel \in SenderChannels, n \in ChunkSizes : SendCall(t, channel, n)
    \/ \E n \in 1 .. sender[t].rest - 1 : SendPiece(t, n)
    \/ SendLast(t)
    \/ SendOver(t)
    \/ EstimateFind(t)
    \/ EstimateRefused(t)
    \/ EstimateClaim(t)
    \/ EstimateWake(t)
    \/ EstimateFails(t)

HlsNext ==
    \/ HlsTick
    \/ \E channel \in Channels : OtherCall(channel) \/ OtherDelete(channel)
    \/ \E t \in Senders : SenderStep(t)

HlsSpec == HlsInit /\ [][HlsNext]_hlsVars

-----------------------------------------------------------------------------
CallsTypeOK ==
    /\ \A t \in Senders :
          /\ sender[t].pc \in {"idle", "send", "sent", "estimate", "found", "asleep"}
          /\ sender[t].rest \in 0 .. sender[t].txbytes
          /\ sender[t].pc \in {"found", "asleep"} => sender[t].slot \in Slots
    /\ unsure \in BOOLEAN

\* What a record holds is an estimate of its own channel's connection, although it
\* is written through a pointer from before the wait: unless the channel was
\* deleted meanwhile or its lookup fell into another.
EstimateIsOwn ==
    ~unsure => \A s \in Slots :
        cls[s].key /= 0 => cls[s].est \in {0, cls[s].key}

\* However the kernel takes a chunk apart, the peer gets its bytes in order, each
\* once, and all of them when the call goes on to estimate or to return.
SentInOrder ==
    \A t \in Senders :
        LET wire == sender[t].wire
        IN  /\ wire = [i \in 1 .. Len(wire) |-> i]
            /\ sender[t].pc \in {"sent", "estimate", "found"} =>
                  Len(wire) = sender[t].txbytes
=============================================================================
