------------------------------- MODULE HlsProofs -------------------------------
(***************************************************************************)
(* The channel table keeps its channels apart, for any size of the table,  *)
(* any channels and any number of threads that send: an active channel     *)
(* keeps its slot, a channel is in one slot, an estimate that waits is     *)
(* written into its own channel's record, and chunks are sent in order.    *)
(* And the advice on the rate of a channel keeps to its rules, for any     *)
(* rates that are allowed, any measurements and any thresholds.            *)
(***************************************************************************)
EXTENDS Hls, SequenceTheorems, FiniteSetTheorems, WellFoundedInduction, TLAPS

-----------------------------------------------------------------------------
(* Types                                                                   *)

SlotType == [key : Nat, tsaccess : Nat, large_samples : Nat, est : Nat]

CallType ==
    [pc : {"idle", "send", "sent", "estimate", "found", "asleep"}, channel : Nat,
     txbytes : Nat, rest : Nat, tnow : Nat, wire : Seq(Nat),
     slot : 0 .. MAX_STREAMS_SLOT, claims : BOOLEAN]

HlsTypes ==
    /\ cls \in [Slots -> SlotType]
    /\ tnow \in Nat
    /\ deletes \in BOOLEAN
    /\ overlap \in BOOLEAN
    /\ unsure \in BOOLEAN
    /\ sender \in [Senders -> CallType]
    /\ \A s \in Slots : cls[s].tsaccess <= tnow
    /\ \A t \in Senders :
          /\ sender[t].rest <= sender[t].txbytes
          /\ sender[t].tnow <= tnow
          /\ sender[t].pc \in {"found", "asleep"} =>
                sender[t].slot \in Slots /\ sender[t].channel /= 0

-----------------------------------------------------------------------------
(* The search                                                              *)

\* A set of numbers has a least one.
LEMMA MinIsLeast ==
    ASSUME NEW S \in SUBSET Nat, S /= {}
    PROVE  Min(S) \in S /\ \A x \in S : Min(S) <= x
<1> DEFINE R == OpToRel(<, Nat)
<1>1. IsWellFoundedOn(R, Nat) BY NatLessThanWellFounded
<1>2. PICK x \in S : \A y \in S : ~(<<y, x>> \in R)
  <2> HIDE DEF R
  <2> QED BY <1>1, WFMin
<1>3. \A y \in S : ~(y < x)
  BY <1>2 DEF OpToRel
<1>4. \A y \in S : x <= y
  BY <1>3
<1> QED BY <1>4 DEF Min

home(ch) == ch % MAX_STREAMS_SLOT

\* The three ways the search can end with a slot.
LEMMA Search ==
    ASSUME HlsTypes, NEW ch \in Nat, SlotFor(ch) /= NoSlot
    PROVE  /\ SlotFor(ch) \in Slots
           /\ home(ch) \in Slots
           /\ \/ SlotFor(ch) = home(ch) /\ cls[home(ch)].key \in {0, ch}
              \/ cls[home(ch)].key \notin {0, ch} /\ cls[SlotFor(ch)].key = ch
              \/ /\ cls[home(ch)].key \notin {0, ch}
                 /\ \A s \in Slots : cls[s].key /= ch
                 /\ Usable(SlotFor(ch))
<1> USE SlotsAssumption DEF Slots, NoSlot
<1>1. home(ch) \in Slots
  BY DEF home
<1>2. CASE cls[home(ch)].key \in {0, ch}
  BY <1>1, <1>2 DEF SlotFor, home
<1>3. CASE cls[home(ch)].key \notin {0, ch} /\ Of(ch) /= {}
  <2>1. Of(ch) \in SUBSET Nat
    BY DEF Of
  <2>2. SlotFor(ch) = Min(Of(ch))
    BY <1>3 DEF SlotFor, home
  <2>3. SlotFor(ch) \in Of(ch)
    BY <1>3, <2>1, <2>2, MinIsLeast
  <2> QED BY <1>1, <1>3, <2>3 DEF Of
<1>4. CASE cls[home(ch)].key \notin {0, ch} /\ Of(ch) = {}
  <2> DEFINE usable == {s \in Slots : Usable(s)}
  <2>1. usable \in SUBSET Nat
    OBVIOUS
  <2>2. usable /= {} /\ SlotFor(ch) = Min(usable)
    BY <1>4 DEF SlotFor, home
  <2>3. SlotFor(ch) \in usable
    BY <2>1, <2>2, MinIsLeast
  <2>4. \A s \in Slots : cls[s].key /= ch
    BY <1>4 DEF Of
  <2> QED BY <1>1, <1>4, <2>3, <2>4
<1> QED BY <1>2, <1>3, <1>4

\* The search does not look at estimates and counts.
LEMMA SearchSame ==
    ASSUME HlsTypes, UNCHANGED tnow,
           \A s \in Slots : cls'[s].key = cls[s].key /\ cls'[s].tsaccess = cls[s].tsaccess,
           NEW ch \in Nat
    PROVE  SlotFor(ch)' = SlotFor(ch)
<1>1. \A s \in Slots : Idle(s)' = Idle(s) /\ Usable(s)' = Usable(s)
  BY DEF Idle, Usable
<1>2. Of(ch)' = Of(ch)
  BY DEF Of
<1>3. {s \in Slots : Usable(s)}' = {s \in Slots : Usable(s)}
  BY <1>1
<1>4. ch % MAX_STREAMS_SLOT \in Slots
  BY SlotsAssumption DEF Slots
<1> QED BY <1>2, <1>3, <1>4 DEF SlotFor

-----------------------------------------------------------------------------
(* The steps that change the table                                         *)

\* A channel's slot is taken, or kept, for it.
Takes(ch, rec) ==
    /\ ch \in Nat \ {0}
    /\ SlotFor(ch) /= NoSlot
    /\ rec \in SlotType
    /\ rec.key = ch
    /\ rec.tsaccess = tnow
    /\ rec.large_samples >= Claimed(SlotFor(ch), ch).large_samples
    /\ rec.est \in {ch, Claimed(SlotFor(ch), ch).est}
    /\ cls' = [cls EXCEPT ![SlotFor(ch)] = rec]
    /\ UNCHANGED <<tnow, deletes>>

Active(s) == cls[s].key /= 0 /\ tnow - cls[s].tsaccess <= IDLE_TIME_MS

\* What the step leaves of a record that is active.
Kept(s) ==
    /\ cls'[s].key = cls[s].key
    /\ cls'[s].large_samples >= cls[s].large_samples
    /\ cls'[s].tsaccess >= cls[s].tsaccess

\* One slot for each channel, and as long as nothing is deleted nobody is away from
\* home while the home is free: the next access would go there.
HomeTaken ==
    \A s \in Slots : cls[s].key /= 0 => cls[home(cls[s].key)].key /= 0

Apart ==
    /\ \A s, t \in Slots : cls[s].key = cls[t].key /\ cls[s].key /= 0 => s = t
    /\ HomeTaken

LEMMA ClaimedIs ==
    ASSUME HlsTypes, NEW s \in Slots, NEW ch \in Nat
    PROVE  /\ Claimed(s, ch) \in SlotType
           /\ Claimed(s, ch).key = ch
           /\ Claimed(s, ch).tsaccess = tnow
           /\ cls[s].key = ch /\ ~Idle(s) =>
                 /\ Claimed(s, ch).large_samples = cls[s].large_samples
                 /\ Claimed(s, ch).est = cls[s].est
           /\ ~(cls[s].key = ch /\ ~Idle(s)) =>
                 Claimed(s, ch).large_samples = 0 /\ Claimed(s, ch).est = 0
  BY DEF HlsTypes, Claimed, SlotType, Free

LEMMA TakesKeeps ==
    ASSUME HlsTypes, NEW ch, NEW rec, Takes(ch, rec)
    PROVE  /\ \A s \in Slots : Active(s) => Kept(s)
           /\ Apart => Apart'
           /\ cls' \in [Slots -> SlotType]
           /\ \A s \in Slots : cls'[s].tsaccess <= tnow
           /\ (\A s \in Slots : cls[s].key /= 0 => cls[s].est \in {0, cls[s].key})
                 => \A s \in Slots : cls'[s].key /= 0 => cls'[s].est \in {0, cls'[s].key}
<1> DEFINE f == SlotFor(ch)
<1>1. /\ ch \in Nat \ {0} /\ f \in Slots /\ home(ch) \in Slots
      /\ rec \in SlotType /\ rec.key = ch /\ rec.tsaccess = tnow
      /\ rec.large_samples >= Claimed(f, ch).large_samples
      /\ rec.est \in {ch, Claimed(f, ch).est}
      /\ cls' = [cls EXCEPT ![f] = rec]
      /\ UNCHANGED tnow
  BY Search DEF Takes
<1>2. \/ f = home(ch) /\ cls[f].key \in {0, ch}
      \/ cls[home(ch)].key \notin {0, ch} /\ cls[f].key = ch
      \/ /\ cls[home(ch)].key \notin {0, ch}
         /\ \A s \in Slots : cls[s].key /= ch
         /\ cls[f].key = 0 \/ Idle(f)
  BY Search DEF Takes, Usable
<1> HIDE DEF f
<1> USE DEF HlsTypes
<1>3. cls' \in [Slots -> SlotType] /\ \A s \in Slots : cls'[s].tsaccess <= tnow
  BY <1>1 DEF SlotType
<1>4. ASSUME NEW s \in Slots, Active(s) PROVE Kept(s)
  <2>1. CASE s /= f
    BY <1>1, <2>1 DEF Kept, SlotType
  <2>2. CASE s = f
    <3>1. cls[f].key = ch /\ ~Idle(f)
      BY <1>1, <1>2, <1>4, <2>2, SlotsAssumption DEF Active, Idle, SlotType
    <3> QED BY <1>1, <2>2, <3>1, ClaimedIs DEF Kept, SlotType
  <2> QED BY <2>1, <2>2
<1>5. ASSUME Apart PROVE Apart'
  <2>1. \A s \in Slots : s /= f => cls'[s].key /= ch
    BY <1>1, <1>2, <1>5 DEF Apart, HomeTaken
  <2>2. \A s, t \in Slots : cls'[s].key = cls'[t].key /\ cls'[s].key /= 0 => s = t
    BY <1>1, <1>5, <2>1 DEF Apart
  <2>3. \A s \in Slots : cls[s].key /= 0 => cls'[s].key /= 0
    BY <1>1
  <2>4. cls'[home(ch)].key /= 0
    BY <1>1, <1>2, <2>3
  <2>5. \A s \in Slots : home(cls[s].key) \in Slots
    BY SMTT(30), SlotsAssumption DEF home, Slots, SlotType
  <2>6. HomeTaken'
    BY <1>1, <1>5, <2>3, <2>4, <2>5 DEF Apart, HomeTaken
  <2> QED BY <2>2, <2>6 DEF Apart
<1>6. ASSUME \A s \in Slots : cls[s].key /= 0 => cls[s].est \in {0, cls[s].key}
      PROVE  \A s \in Slots : cls'[s].key /= 0 => cls'[s].est \in {0, cls'[s].key}
  <2>1. rec.est \in {0, ch}
    BY <1>1, <1>6, ClaimedIs
  <2> QED BY <1>1, <1>6, <2>1
<1> QED BY <1>3, <1>4, <1>5, <1>6

-----------------------------------------------------------------------------
(* The invariant.  Unless a lookup fell into another, a lookup under way   *)
(* is alone and what it has seen is still so.  An estimate that waits has  *)
(* its channel in the slot it points to, which was accessed when the wait  *)
(* began: the wait is shorter than the idle time, so nobody takes the slot *)
(* meanwhile.                                                              *)

LookInv ==
    ~overlap => \A t \in Senders : Looking(t) =>
        /\ \A ch \in Nat, s \in Slots :
              sender[t].channel = ch /\ sender[t].slot = s =>
                  /\ s = SlotFor(ch)
                  /\ sender[t].claims = (cls[s].key /= ch \/ Idle(s))
        /\ sender[t].tnow = tnow
        /\ \A u \in Senders : Looking(u) => u = t

WaitInv ==
    ~unsure => \A t \in Senders : sender[t].pc = "asleep" =>
        /\ cls[sender[t].slot].key = sender[t].channel
        /\ cls[sender[t].slot].tsaccess >= sender[t].tnow
        /\ tnow - sender[t].tnow <= MaxSleep

SentInv ==
    \A t \in Senders :
        LET wire == sender[t].wire
        IN  /\ wire = [i \in 1 .. Len(wire) |-> i]
            /\ sender[t].pc = "send" => Len(wire) = sender[t].txbytes - sender[t].rest
            /\ sender[t].pc \in {"sent", "estimate", "found"} => Len(wire) = sender[t].txbytes

TableInv ==
    /\ overlap => unsure
    /\ ~deletes /\ ~overlap => Apart
    /\ EstimateIsOwn

HlsInv == HlsTypes /\ TableInv /\ LookInv /\ WaitInv

LEMMA RestingIs ==
    /\ Resting \in CallType
    /\ Resting.pc = "idle" /\ Resting.txbytes = 0 /\ Resting.rest = 0
    /\ Resting.tnow = 0 /\ Resting.wire = << >>
  BY SlotsAssumption, EmptySeq DEF Resting, CallType, NoSlot

LEMMA HlsInvInit == HlsInit => HlsInv /\ SentInv
<1> SUFFICES ASSUME HlsInit PROVE HlsInv /\ SentInv
  OBVIOUS
<1> USE SlotsAssumption, CallsAssumption DEF HlsInit, SlotsInit, Resting, Free, NoSlot
<1>1. HlsTypes
  <2>1. cls \in [Slots -> SlotType] BY DEF SlotType
  <2>2. NoSlot \in 0 .. MAX_STREAMS_SLOT OBVIOUS
  <2>3. << >> \in Seq(Nat) BY EmptySeq
  <2>4. sender \in [Senders -> CallType] BY <2>2, <2>3 DEF CallType
  <2>5. tnow \in Nat /\ \A s \in Slots : cls[s].tsaccess <= tnow
    OBVIOUS
  <2>6. \A t \in Senders :
          /\ sender[t].rest <= sender[t].txbytes
          /\ sender[t].tnow <= tnow
          /\ sender[t].pc \in {"found", "asleep"} =>
                sender[t].slot \in Slots /\ sender[t].channel /= 0
    BY <2>5
  <2>7. deletes \in BOOLEAN /\ overlap \in BOOLEAN /\ unsure \in BOOLEAN
    OBVIOUS
  <2> QED BY <2>1, <2>4, <2>5, <2>6, <2>7, Zenon DEF HlsTypes
<1>2. TableInv
  BY DEF TableInv, Apart, HomeTaken, EstimateIsOwn
<1>3. LookInv /\ WaitInv
  BY DEF LookInv, WaitInv, Looking
<1>4. SentInv
  BY DEF SentInv
<1> QED BY <1>1, <1>2, <1>3, <1>4 DEF HlsInv

\* What an estimate waits for is active, so no other call takes it away.
LEMMA WaitedForIsActive ==
    ASSUME HlsInv, ~unsure, NEW t \in Senders, sender[t].pc = "asleep"
    PROVE  sender[t].slot \in Slots /\ Active(sender[t].slot)
  BY CallsAssumption, SlotsAssumption
  DEF HlsInv, HlsTypes, WaitInv, Active, CallType, SlotType

\* A step of a caller that changes nothing of the table, and looks nothing up.
LEMMA SenderOnly ==
    ASSUME HlsInv, UNCHANGED <<slotVars, unsure>>, HlsTypes',
           NEW t \in Senders, \A u \in Senders : u /= t => sender'[u] = sender[u],
           sender'[t].pc \notin {"found", "asleep"}
    PROVE  HlsInv'
<1> USE DEF HlsInv, slotVars
<1>1. TableInv'
  BY DEF TableInv, Apart, HomeTaken, EstimateIsOwn
<1>2. \A ch \in Nat : SlotFor(ch)' = SlotFor(ch)
  BY SearchSame
<1>3. LookInv'
  <2>1. \A u \in Senders : Looking(u)' => Looking(u) /\ sender'[u] = sender[u]
    BY DEF Looking
  <2>2. \A u \in Senders : sender[u].channel \in Nat
    BY DEF HlsTypes, CallType
  <2>3. \A s \in Slots : Idle(s)' = Idle(s)
    BY DEF Idle
  <2> QED BY <1>2, <2>1, <2>2, <2>3 DEF LookInv
<1>4. WaitInv'
  BY DEF WaitInv
<1> QED BY <1>1, <1>3, <1>4

LEMMA SendCallKeeps ==
    ASSUME HlsInv, SentInv, NEW t \in Senders, NEW ch \in SenderChannels, NEW n \in ChunkSizes,
           SendCall(t, ch, n)
    PROVE  HlsInv' /\ SentInv'
<1> USE SlotsAssumption, CallsAssumption DEF HlsInv, HlsTypes
<1> DEFINE r == [Resting EXCEPT !.pc = "send", !.channel = ch, !.txbytes = n, !.rest = n]
<1>1. sender' = [sender EXCEPT ![t] = r] /\ UNCHANGED <<slotVars, unsure>>
  BY DEF SendCall
<1>2. /\ r \in CallType
      /\ r.pc = "send" /\ r.txbytes = n /\ r.rest = n /\ r.tnow = 0 /\ r.wire = << >>
  BY RestingIs DEF CallType
<1> HIDE DEF r
<1>3. sender' \in [Senders -> CallType] /\ sender'[t] = r
      /\ \A u \in Senders : u /= t => sender'[u] = sender[u]
  BY <1>1, <1>2
<1>4. HlsTypes'
  BY <1>1, <1>2, <1>3 DEF slotVars
<1>5. HlsInv'
  BY <1>1, <1>2, <1>3, <1>4, SenderOnly
<1>6. r.wire = [i \in 1 .. Len(r.wire) |-> i] /\ Len(r.wire) = 0
  BY <1>2
<1>7. SentInv'
  BY <1>2, <1>3, <1>6 DEF SentInv
<1> QED BY <1>5, <1>7

\* The pieces follow one another.
LEMMA PieceFollows ==
    ASSUME HlsTypes, SentInv, NEW t \in Senders, sender[t].pc = "send",
           NEW n \in 0 .. sender[t].rest
    PROVE  LET wire == sender[t].wire \o Piece(t, n)
           IN  /\ wire \in Seq(Nat)
               /\ Len(wire) = Len(sender[t].wire) + n
               /\ wire = [i \in 1 .. Len(wire) |-> i]
<1> DEFINE old == sender[t].wire
<1>1. old \in Seq(Nat) /\ Len(old) = sender[t].txbytes - sender[t].rest
      /\ old = [i \in 1 .. Len(old) |-> i] /\ n \in Nat
  BY DEF HlsTypes, CallType, SentInv
<1>2. Piece(t, n) = [i \in 1 .. n |-> Len(old) + i]
  BY <1>1 DEF Piece, HlsTypes, CallType
<1> DEFINE new == [i \in 1 .. n |-> Len(old) + i]
           all == [i \in 1 .. Len(old) + n |-> i]
<1>3. Len(old) \in Nat
  BY <1>1, LenProperties
<1>4. new \in Seq(Nat) /\ Len(new) = n
  <2>1. new \in [1 .. n -> Nat] BY <1>1, <1>3
  <2> QED BY <1>1, <2>1, SeqDef
<1>5. all \in Seq(Nat) /\ Len(all) = Len(old) + n
  <2>1. all \in [1 .. Len(old) + n -> Nat] BY <1>1, <1>3
  <2> QED BY <1>1, <1>3, <2>1, SeqDef
<1>6. /\ old \o new \in Seq(Nat) /\ Len(old \o new) = Len(old) + n
      /\ \A i \in 1 .. Len(old) + n :
            (old \o new)[i] = IF i <= Len(old) THEN old[i] ELSE new[i - Len(old)]
  <2>1. old \in Seq(Nat) /\ new \in Seq(Nat) /\ Len(new) = n
    BY <1>1, <1>4
  <2> HIDE DEF old, new
  <2> QED BY <2>1, ConcatProperties
<1>7. \A i \in 1 .. Len(old) + n : (old \o new)[i] = all[i]
  <2> TAKE i \in 1 .. Len(old) + n
  <2>1. CASE i <= Len(old)
    <3>1. old[i] = i BY <1>1, <1>3, <2>1
    <3> QED BY <1>3, <1>6, <2>1, <3>1
  <2>2. CASE i > Len(old)
    <3>1. new[i - Len(old)] = i BY <1>1, <1>3, <2>2
    <3> QED BY <1>3, <1>6, <2>2, <3>1
  <2> QED BY <1>3, <2>1, <2>2
<1>8. old \o new = all
  <2> HIDE DEF old, new, all
  <2> QED BY <1>5, <1>6, <1>7, SeqEqual
<1> QED BY <1>2, <1>5, <1>8

\* The calls' records after a step of one of them.
LEMMA SenderTypes ==
    ASSUME HlsTypes, UNCHANGED <<slotVars, unsure>>, NEW t \in Senders, NEW r \in CallType,
           sender' = [sender EXCEPT ![t] = r],
           r.rest <= r.txbytes, r.tnow <= tnow,
           r.pc \in {"found", "asleep"} => r.slot \in Slots /\ r.channel /= 0
    PROVE  /\ HlsTypes'
           /\ sender'[t] = r
           /\ \A u \in Senders : u /= t => sender'[u] = sender[u]
  BY DEF HlsTypes, slotVars

LEMMA SendPieceKeeps ==
    ASSUME HlsInv, SentInv, NEW t \in Senders, NEW n \in 1 .. sender[t].rest - 1,
           SendPiece(t, n)
    PROVE  HlsInv' /\ SentInv'
<1> DEFINE w == sender[t].wire \o Piece(t, n)
           r == [sender[t] EXCEPT !.rest = @ - n, !.wire = w]
<1>1. sender' = [sender EXCEPT ![t] = r] /\ UNCHANGED <<slotVars, unsure>>
      /\ sender[t].pc = "send"
  BY DEF SendPiece, HlsInv, HlsTypes, CallType
<1>2. sender[t] \in CallType /\ sender[t].rest <= sender[t].txbytes /\ sender[t].tnow <= tnow
  BY DEF HlsInv, HlsTypes
<1>3. n \in 0 .. sender[t].rest
  BY <1>2 DEF CallType
<1>4. w \in Seq(Nat) /\ Len(w) = Len(sender[t].wire) + n /\ w = [i \in 1 .. Len(w) |-> i]
  BY <1>1, <1>3, PieceFollows DEF HlsInv
<1> HIDE DEF w
<1>5. /\ r \in CallType /\ r.pc = "send" /\ r.wire = w /\ r.rest = sender[t].rest - n
      /\ r.txbytes = sender[t].txbytes /\ r.tnow = sender[t].tnow
  <2>1. sender[t].rest - n \in Nat
    BY <1>2, <1>3 DEF CallType
  <2> QED BY <1>1, <1>2, <1>4, <2>1 DEF CallType
<1> HIDE DEF r
<1>6. HlsTypes' /\ sender'[t] = r /\ \A u \in Senders : u /= t => sender'[u] = sender[u]
  <2>1. r.rest <= r.txbytes /\ r.tnow <= tnow
    BY <1>2, <1>3, <1>5 DEF CallType
  <2> QED BY <1>1, <1>5, <2>1, SenderTypes DEF HlsInv
<1>7. HlsInv'
  BY <1>1, <1>5, <1>6, SenderOnly
<1>8. SentInv'
  <2>1. Len(sender[t].wire) = sender[t].txbytes - sender[t].rest
    BY <1>1 DEF SentInv
  <2>2. Len(w) = r.txbytes - r.rest
    BY <1>2, <1>3, <1>4, <1>5, <2>1 DEF CallType
  <2> QED BY <1>4, <1>5, <1>6, <2>2 DEF SentInv
<1> QED BY <1>7, <1>8

LEMMA SendLastKeeps ==
    ASSUME HlsInv, SentInv, NEW t \in Senders, SendLast(t)
    PROVE  HlsInv' /\ SentInv'
<1> DEFINE w == sender[t].wire \o Piece(t, sender[t].rest)
           pc == IF sender[t].txbytes > MIN_TX_ESTIMATE_SZ THEN "estimate" ELSE "sent"
           r == [sender[t] EXCEPT !.wire = w, !.pc = pc]
<1>1. sender' = [sender EXCEPT ![t] = r] /\ UNCHANGED <<slotVars, unsure>>
      /\ sender[t].pc = "send"
  BY DEF SendLast, HlsInv, HlsTypes, CallType
<1>2. sender[t] \in CallType /\ sender[t].rest <= sender[t].txbytes /\ sender[t].tnow <= tnow
  BY DEF HlsInv, HlsTypes
<1>3. sender[t].rest \in 0 .. sender[t].rest
  BY <1>2 DEF CallType
<1>4. /\ w \in Seq(Nat) /\ Len(w) = Len(sender[t].wire) + sender[t].rest
      /\ w = [i \in 1 .. Len(w) |-> i]
  BY <1>1, <1>3, PieceFollows DEF HlsInv
<1> HIDE DEF w
<1>5. pc \in {"estimate", "sent"}
  OBVIOUS
<1> HIDE DEF pc
<1>6. /\ r \in CallType /\ r.pc = pc /\ r.wire = w /\ r.rest = sender[t].rest
      /\ r.txbytes = sender[t].txbytes /\ r.tnow = sender[t].tnow
  BY <1>1, <1>2, <1>3, <1>4, <1>5 DEF CallType
<1> HIDE DEF r
<1>7. HlsTypes' /\ sender'[t] = r /\ \A u \in Senders : u /= t => sender'[u] = sender[u]
  <2>1. r.rest <= r.txbytes /\ r.tnow <= tnow
    BY <1>2, <1>6
  <2> QED BY <1>1, <1>5, <1>6, <2>1, SenderTypes DEF HlsInv
<1>8. HlsInv'
  BY <1>1, <1>5, <1>6, <1>7, SenderOnly
<1>9. SentInv'
  <2>1. Len(sender[t].wire) = sender[t].txbytes - sender[t].rest
    BY <1>1 DEF SentInv
  <2>2. Len(w) = r.txbytes
    BY <1>2, <1>4, <1>6, <2>1 DEF CallType
  <2> QED BY SMTT(30), <1>4, <1>5, <1>6, <1>7, <2>2 DEF SentInv
<1> QED BY <1>8, <1>9

\* A call returns.
LEMMA ReturnKeeps ==
    ASSUME HlsInv, SentInv, NEW t \in Senders, SendOver(t) \/ EstimateFails(t)
    PROVE  HlsInv' /\ SentInv'
<1>1. sender' = [sender EXCEPT ![t] = Resting] /\ UNCHANGED <<slotVars, unsure>>
  BY DEF SendOver, EstimateFails
<1>2. HlsTypes' /\ sender'[t] = Resting /\ \A u \in Senders : u /= t => sender'[u] = sender[u]
  <2>1. Resting.tnow <= tnow /\ Resting.rest <= Resting.txbytes
    BY RestingIs DEF HlsInv, HlsTypes
  <2>2. Resting \in CallType /\ Resting.pc \notin {"found", "asleep"}
    BY RestingIs
  <2> QED BY <1>1, <2>1, <2>2, SenderTypes DEF HlsInv
<1>3. HlsInv'
  BY <1>1, <1>2, RestingIs, SenderOnly
<1>4. SentInv'
  <2>1. Resting.wire = [i \in 1 .. Len(Resting.wire) |-> i]
    BY RestingIs
  <2> QED BY <1>2, <2>1, RestingIs DEF SentInv
<1> QED BY <1>3, <1>4

-----------------------------------------------------------------------------
(* hls_estimate_bw                                                         *)

\* The search comes to an end.  If another one is under way nothing is promised.
LEMMA EstimateFindKeeps ==
    ASSUME HlsInv, SentInv, NEW t \in Senders, EstimateFind(t)
    PROVE  HlsInv' /\ SentInv'
<1> DEFINE ch == sender[t].channel
           s == SlotFor(ch)
           found == [sender[t] EXCEPT !.pc = "found", !.slot = s, !.tnow = tnow,
                                      !.claims = cls[s].key /= ch \/ Idle(s)]
           r == IF Accepts(ch) THEN found ELSE Resting
<1>1. /\ sender[t].pc = "estimate"
      /\ sender' = [sender EXCEPT ![t] = r]
      /\ overlap' = (overlap \/ Overtakes(t))
      /\ unsure' = (unsure \/ Overtakes(t))
      /\ UNCHANGED <<cls, tnow, deletes>>
  BY DEF EstimateFind
<1>2. /\ sender[t] \in CallType /\ sender[t].rest <= sender[t].txbytes
      /\ sender \in [Senders -> CallType] /\ tnow \in Nat /\ HlsTypes
      /\ sender[t].wire = [i \in 1 .. Len(sender[t].wire) |-> i]
      /\ Len(sender[t].wire) = sender[t].txbytes
  BY <1>1 DEF HlsInv, HlsTypes, SentInv
<1>3. Accepts(ch) => ch /= 0 /\ s \in Slots /\ s /= NoSlot
  BY <1>2, Search DEF Accepts, CallType
<1>4. Slots \subseteq 0 .. MAX_STREAMS_SLOT
  BY SlotsAssumption DEF Slots
<1> HIDE DEF s
<1>5. CASE Accepts(ch)
  <2>1. /\ found \in CallType /\ found.pc = "found" /\ found.slot = s /\ found.tnow = tnow
        /\ found.channel = ch /\ found.txbytes = sender[t].txbytes
        /\ found.rest = sender[t].rest /\ found.wire = sender[t].wire
        /\ found.claims = (cls[s].key /= ch \/ Idle(s))
    BY <1>2, <1>3, <1>4, <1>5 DEF CallType
  <2> HIDE DEF found
  <2>2. sender' = [sender EXCEPT ![t] = found]
    BY <1>1, <1>5
  <2>3. sender'[t] = found /\ \A u \in Senders : u /= t => sender'[u] = sender[u]
    BY <1>2, <2>2
  <2>4. HlsTypes'
    <3>1. found.rest <= found.txbytes /\ found.tnow <= tnow /\ s \in Slots /\ ch /= 0
      BY <1>2, <1>3, <1>5, <2>1
    <3>2. sender' \in [Senders -> CallType]
      BY <1>2, <2>1, <2>2
    <3>3. overlap' \in BOOLEAN /\ unsure' \in BOOLEAN
      BY <1>1
    <3> HIDE DEF ch
    <3> QED BY <1>1, <1>2, <2>1, <2>3, <3>1, <3>2, <3>3 DEF HlsTypes
  <2>5. SentInv'
    BY <1>2, <2>1, <2>3 DEF SentInv
  <2>6. CASE Overtakes(t)
    BY <1>1, <2>4, <2>5, <2>6 DEF HlsInv, TableInv, LookInv, WaitInv, EstimateIsOwn
  <2>7. CASE ~Overtakes(t)
    <3>1. UNCHANGED <<cls, tnow, deletes, overlap, unsure>>
      BY <1>1, <2>7 DEF HlsInv, HlsTypes
    <3>2. TableInv'
      BY <3>1 DEF HlsInv, TableInv, Apart, HomeTaken, EstimateIsOwn
    <3>3. /\ \A c \in Nat : SlotFor(c)' = SlotFor(c)
          /\ \A x \in Slots : Idle(x)' = Idle(x)
      BY <1>2, <3>1, SearchSame DEF Idle
    <3>4. LookInv'
      <4>1. \A u \in Senders : Looking(u)' => u = t
        BY <2>3, <2>7 DEF Looking, Overtakes
      <4>2. ASSUME NEW c \in Nat, NEW x \in Slots, sender'[t].channel = c, sender'[t].slot = x
            PROVE  x = SlotFor(c)' /\ sender'[t].claims = (cls'[x].key /= c \/ Idle(x)')
        <5>1. c = ch /\ x = s
          BY <2>1, <2>3, <4>2
        <5>2. SlotFor(c)' = s
          BY <3>3, <5>1 DEF s
        <5> HIDE DEF ch
        <5> QED BY <2>1, <2>3, <3>1, <3>3, <5>1, <5>2
      <4>3. sender'[t].tnow = tnow'
        BY <2>1, <2>3, <3>1
      <4> HIDE DEF ch
      <4> QED BY <4>1, <4>2, <4>3 DEF LookInv
    <3>5. WaitInv'
      BY <2>1, <2>3, <3>1 DEF HlsInv, WaitInv
    <3> QED BY <2>4, <2>5, <3>2, <3>4, <3>5 DEF HlsInv
  <2> QED BY <2>6, <2>7
<1>6. CASE ~Accepts(ch)
  <2>1. sender' = [sender EXCEPT ![t] = Resting]
    BY <1>1, <1>6
  <2>2. sender'[t] = Resting /\ \A u \in Senders : u /= t => sender'[u] = sender[u]
    BY <1>2, <2>1
  <2>3. HlsTypes'
    <3>1. /\ Resting.rest <= Resting.txbytes /\ Resting.tnow <= tnow
          /\ Resting.pc \notin {"found", "asleep"}
      BY <1>2, RestingIs
    <3>2. sender' \in [Senders -> CallType]
      BY <1>2, <2>1, RestingIs
    <3>3. overlap' \in BOOLEAN /\ unsure' \in BOOLEAN
      BY <1>1
    <3> QED BY <1>1, <1>2, <2>2, <3>1, <3>2, <3>3 DEF HlsTypes
  <2>4. SentInv'
    <3>1. Resting.wire = [i \in 1 .. Len(Resting.wire) |-> i]
      BY RestingIs
    <3> QED BY <2>2, <3>1, RestingIs DEF SentInv
  <2>5. CASE Overtakes(t)
    BY <1>1, <2>3, <2>4, <2>5 DEF HlsInv, TableInv, LookInv, WaitInv, EstimateIsOwn
  <2>6. CASE ~Overtakes(t)
    <3>1. UNCHANGED <<slotVars, unsure>>
      BY <1>1, <2>6 DEF HlsInv, HlsTypes, slotVars
    <3>2. sender'[t].pc \notin {"found", "asleep"}
      BY <2>2, RestingIs
    <3> QED BY <2>2, <2>3, <2>4, <3>1, <3>2, SenderOnly
  <2> QED BY <2>5, <2>6
<1> QED BY <1>5, <1>6

\* A record is written, and a call goes on with r.
LEMMA WrittenTypes ==
    ASSUME HlsTypes, UNCHANGED <<tnow, deletes, overlap, unsure>>,
           NEW s \in Slots, NEW rec \in SlotType, rec.tsaccess <= tnow,
           cls' = [cls EXCEPT ![s] = rec],
           NEW t \in Senders, NEW r \in CallType, sender' = [sender EXCEPT ![t] = r],
           r.rest <= r.txbytes, r.tnow <= tnow,
           r.pc \in {"found", "asleep"} => r.slot \in Slots /\ r.channel /= 0
    PROVE  /\ HlsTypes'
           /\ sender'[t] = r
           /\ \A u \in Senders : u /= t => sender'[u] = sender[u]
<1>1. cls' \in [Slots -> SlotType] /\ \A x \in Slots : cls'[x].tsaccess <= tnow
  BY DEF HlsTypes
<1>2. sender' \in [Senders -> CallType] /\ sender'[t] = r
      /\ \A u \in Senders : u /= t => sender'[u] = sender[u]
  BY DEF HlsTypes
<1>3. \A u \in Senders :
          /\ sender'[u].rest <= sender'[u].txbytes
          /\ sender'[u].tnow <= tnow
          /\ sender'[u].pc \in {"found", "asleep"} =>
                sender'[u].slot \in Slots /\ sender'[u].channel /= 0
  BY <1>2 DEF HlsTypes
<1> QED BY <1>1, <1>2, <1>3 DEF HlsTypes

\* The wire is empty again.
LEMMA WireEmpty ==
    ASSUME SentInv, NEW t \in Senders, sender'[t].wire = << >>, sender'[t].pc \in {"idle", "asleep"},
           \A u \in Senders : u /= t => sender'[u] = sender[u]
    PROVE  SentInv'
<1>1. sender'[t].wire = [i \in 1 .. Len(sender'[t].wire) |-> i]
  OBVIOUS
<1> QED BY <1>1 DEF SentInv

\* A slot is taken while nobody is between a search and its end, except for the call
\* that takes it.
LEMMA TakesInv ==
    ASSUME HlsInv, NEW ch, NEW rec, Takes(ch, rec), UNCHANGED <<overlap, unsure>>, HlsTypes',
           \A u \in Senders : ~Looking(u)',
           NEW f, f = SlotFor(ch),
           \A u \in Senders : sender'[u].pc = "asleep" =>
              \/ sender'[u] = sender[u]
              \/ sender'[u].slot = f /\ sender'[u].channel = ch /\ sender'[u].tnow = tnow
    PROVE  HlsInv'
<1> USE SlotsAssumption, CallsAssumption
<1>1. /\ \A s \in Slots : Active(s) => Kept(s)
      /\ Apart => Apart'
      /\ (\A s \in Slots : cls[s].key /= 0 => cls[s].est \in {0, cls[s].key})
           => \A s \in Slots : cls'[s].key /= 0 => cls'[s].est \in {0, cls'[s].key}
  BY TakesKeeps DEF HlsInv
<1>2. /\ f \in Slots /\ cls' = [cls EXCEPT ![f] = rec] /\ rec.key = ch /\ rec.tsaccess = tnow
      /\ UNCHANGED <<tnow, deletes>>
  BY Search DEF Takes, HlsInv
<1>3. TableInv'
  BY <1>1, <1>2 DEF HlsInv, TableInv, EstimateIsOwn
<1>4. LookInv'
  BY DEF LookInv
<1>5. ASSUME ~unsure, NEW u \in Senders, sender'[u].pc = "asleep"
      PROVE  /\ cls'[sender'[u].slot].key = sender'[u].channel
             /\ cls'[sender'[u].slot].tsaccess >= sender'[u].tnow
             /\ tnow - sender'[u].tnow <= MaxSleep
  <2>1. CASE sender'[u] = sender[u]
    <3>1. sender[u].slot \in Slots /\ Kept(sender[u].slot)
      BY <1>1, <1>5, <2>1, WaitedForIsActive
    <3>2. /\ cls[sender[u].slot].key = sender[u].channel
          /\ cls[sender[u].slot].tsaccess >= sender[u].tnow
          /\ tnow - sender[u].tnow <= MaxSleep
      BY <1>5, <2>1 DEF HlsInv, WaitInv
    <3>3. /\ sender[u].tnow \in Nat /\ cls[sender[u].slot].tsaccess \in Nat
          /\ cls'[sender[u].slot].tsaccess \in Nat
      BY <3>1 DEF HlsInv, HlsTypes, SlotType, CallType
    <3> QED BY <2>1, <3>1, <3>2, <3>3 DEF Kept
  <2>2. CASE sender'[u].slot = f /\ sender'[u].channel = ch /\ sender'[u].tnow = tnow
    <3>1. cls'[f] = rec /\ tnow \in Nat
      BY <1>2 DEF HlsInv, HlsTypes
    <3> QED BY <1>2, <2>2, <3>1
  <2> QED BY <1>5, <2>1, <2>2
<1>6. WaitInv'
  BY <1>2, <1>5 DEF WaitInv
<1> QED BY <1>3, <1>4, <1>6 DEF HlsInv

\* Once a lookup has fallen into another nothing but the types is promised.
LEMMA OverlapInv ==
    ASSUME HlsInv, overlap, UNCHANGED <<overlap, unsure>>, HlsTypes'
    PROVE  HlsInv'
  BY DEF HlsInv, TableInv, LookInv, WaitInv, EstimateIsOwn

\* What the lookup leaves in the slot, when it was alone.
LEMMA ClaimedByIs ==
    ASSUME HlsInv, NEW t \in Senders, Looking(t)
    PROVE  /\ sender[t].slot \in Slots /\ ClaimedBy(t) \in SlotType
           /\ ClaimedBy(t).tsaccess = sender[t].tnow /\ sender[t].tnow <= tnow
           /\ sender[t].channel \in Nat \ {0}
           /\ ~overlap =>
                 /\ sender[t].slot = SlotFor(sender[t].channel)
                 /\ ClaimedBy(t) = Claimed(sender[t].slot, sender[t].channel)
                 /\ sender[t].tnow = tnow
                 /\ ClaimedBy(t).key = sender[t].channel
<1>1. /\ sender[t].slot \in Slots /\ sender[t].channel \in Nat \ {0}
      /\ sender[t].tnow \in Nat /\ sender[t].tnow <= tnow
      /\ cls[sender[t].slot] \in SlotType /\ sender[t].claims \in BOOLEAN
  BY DEF HlsInv, HlsTypes, CallType, Looking
<1>2. ClaimedBy(t) \in SlotType /\ ClaimedBy(t).tsaccess = sender[t].tnow
  BY <1>1 DEF ClaimedBy, SlotType, Free
<1>3. ASSUME ~overlap
      PROVE  /\ sender[t].slot = SlotFor(sender[t].channel)
             /\ sender[t].claims =
                   (cls[sender[t].slot].key /= sender[t].channel \/ Idle(sender[t].slot))
             /\ sender[t].tnow = tnow
  BY <1>1, <1>3 DEF HlsInv, LookInv
<1>4. ASSUME ~overlap
      PROVE  ClaimedBy(t) = Claimed(sender[t].slot, sender[t].channel)
  <2>1. CASE cls[sender[t].slot].key /= sender[t].channel \/ Idle(sender[t].slot)
    BY <1>3, <1>4, <2>1 DEF ClaimedBy, Claimed
  <2>2. CASE ~(cls[sender[t].slot].key /= sender[t].channel \/ Idle(sender[t].slot))
    BY <1>3, <1>4, <2>2 DEF ClaimedBy, Claimed
  <2> QED BY <2>1, <2>2
<1>5. ~overlap => ClaimedBy(t).key = sender[t].channel
  BY <1>1, <1>4, ClaimedIs DEF HlsInv
<1> QED BY <1>1, <1>2, <1>3, <1>4, <1>5

LEMMA EstimateRefusedKeeps ==
    ASSUME HlsInv, SentInv, NEW t \in Senders, EstimateRefused(t)
    PROVE  HlsInv' /\ SentInv' /\ overlap
<1>1. /\ Looking(t) /\ ClaimedBy(t).key /= sender[t].channel
      /\ cls' = [cls EXCEPT ![sender[t].slot] = ClaimedBy(t)]
      /\ sender' = [sender EXCEPT ![t] = Resting]
      /\ UNCHANGED <<tnow, deletes, overlap, unsure>>
  BY DEF EstimateRefused
<1>2. /\ sender[t].slot \in Slots /\ ClaimedBy(t) \in SlotType
      /\ ClaimedBy(t).tsaccess <= tnow /\ overlap
  BY <1>1, ClaimedByIs DEF HlsInv, HlsTypes
<1>3. Resting.rest <= Resting.txbytes /\ Resting.tnow <= tnow
  BY RestingIs DEF HlsInv, HlsTypes
<1>4. HlsTypes' /\ sender'[t] = Resting /\ \A u \in Senders : u /= t => sender'[u] = sender[u]
  BY <1>1, <1>2, <1>3, RestingIs, WrittenTypes DEF HlsInv
<1> QED BY <1>1, <1>2, <1>4, OverlapInv, WireEmpty, RestingIs

LEMMA EstimateClaimKeeps ==
    ASSUME HlsInv, SentInv, NEW t \in Senders, EstimateClaim(t)
    PROVE  /\ HlsInv' /\ SentInv'
           /\ ~overlap => \A s \in Slots : Active(s) => Kept(s)
<1> DEFINE ch == sender[t].channel
           f == sender[t].slot
           large == ClaimedBy(t).est = 0 \/ sender[t].rest > LargeSize
           rec == [ClaimedBy(t) EXCEPT !.large_samples = IF large THEN @ + 1 ELSE @]
           asleep == [Resting EXCEPT !.pc = "asleep", !.channel = ch, !.slot = f,
                                     !.tnow = sender[t].tnow]
<1>1. /\ Looking(t) /\ ClaimedBy(t).key = ch
      /\ cls' = [cls EXCEPT ![f] = rec]
      /\ UNCHANGED <<tnow, deletes, overlap, unsure>>
      /\ \/ sender' = [sender EXCEPT ![t] = Resting]
         \/ sender' = [sender EXCEPT ![t] = asleep]
  BY DEF EstimateClaim
<1>2. /\ f \in Slots /\ ClaimedBy(t) \in SlotType /\ ClaimedBy(t).tsaccess = sender[t].tnow
      /\ sender[t].tnow <= tnow /\ ch \in Nat \ {0}
      /\ ~overlap => /\ f = SlotFor(ch) /\ ClaimedBy(t) = Claimed(f, ch)
                     /\ sender[t].tnow = tnow
  BY <1>1, ClaimedByIs
<1>3. sender[t].tnow \in Nat /\ tnow \in Nat /\ sender[t] \in CallType
  BY DEF HlsInv, HlsTypes, CallType
<1>4. /\ rec \in SlotType /\ rec.key = ch /\ rec.tsaccess = sender[t].tnow
      /\ rec.est = ClaimedBy(t).est /\ rec.large_samples >= ClaimedBy(t).large_samples
  BY <1>1, <1>2 DEF SlotType
<1>5. /\ asleep \in CallType /\ asleep.pc = "asleep" /\ asleep.channel = ch /\ asleep.slot = f
      /\ asleep.tnow = sender[t].tnow /\ asleep.wire = << >>
      /\ asleep.rest <= asleep.txbytes
  <2>1. f \in 0 .. MAX_STREAMS_SLOT
    BY <1>2, SlotsAssumption DEF Slots
  <2>2. sender[t].tnow \in Nat
    BY <1>3
  <2> HIDE DEF f, ch
  <2>3. /\ asleep.pc = "asleep" /\ asleep.channel = ch /\ asleep.slot = f
        /\ asleep.tnow = sender[t].tnow
    BY RestingIs DEF CallType
  <2>4. asleep.wire = << >> /\ asleep.rest <= asleep.txbytes
    BY RestingIs DEF CallType
  <2>5. asleep \in CallType
    BY <1>2, <2>1, <2>2, RestingIs DEF CallType
  <2> QED BY <2>3, <2>4, <2>5
<1> HIDE DEF rec, asleep
<1>6. PICK r \in {Resting, asleep} : sender' = [sender EXCEPT ![t] = r]
  BY <1>1
<1>7. /\ r \in CallType /\ r.rest <= r.txbytes /\ r.tnow <= tnow /\ r.wire = << >>
      /\ r.pc \in {"idle", "asleep"}
      /\ r.pc = "asleep" => r = asleep
  BY <1>2, <1>3, <1>5, <1>6, RestingIs
<1> HIDE DEF ch, f
<1>8. HlsTypes' /\ sender'[t] = r /\ \A u \in Senders : u /= t => sender'[u] = sender[u]
  <2>1. r.pc \in {"found", "asleep"} => r.slot \in Slots /\ r.channel /= 0
    BY <1>2, <1>5, <1>7
  <2>2. rec.tsaccess <= tnow
    BY <1>2, <1>4
  <2> QED BY <1>1, <1>2, <1>4, <1>6, <1>7, <2>1, <2>2, WrittenTypes DEF HlsInv
<1>9. SentInv'
  BY <1>7, <1>8, WireEmpty
<1>10. CASE overlap
  BY <1>1, <1>8, <1>9, <1>10, OverlapInv
<1>11. CASE ~overlap
  <2>1. Takes(ch, rec)
    <3>1. SlotFor(ch) /= NoSlot
      BY <1>2, <1>11, SlotsAssumption DEF NoSlot, Slots
    <3>2. /\ rec.large_samples >= Claimed(SlotFor(ch), ch).large_samples
          /\ rec.est \in {ch, Claimed(SlotFor(ch), ch).est}
          /\ rec.tsaccess = tnow
      BY <1>2, <1>4, <1>11
    <3>3. cls' = [cls EXCEPT ![SlotFor(ch)] = rec] /\ UNCHANGED <<tnow, deletes>>
      BY <1>1, <1>2, <1>11
    <3> QED BY <1>2, <1>4, <3>1, <3>2, <3>3 DEF Takes
  <2>2. \A u \in Senders : ~Looking(u)'
    <3>1. \A u \in Senders : Looking(u) => u = t
      BY <1>1, <1>11 DEF HlsInv, LookInv
    <3> QED BY <1>7, <1>8, <3>1 DEF Looking
  <2>3. \A u \in Senders : sender'[u].pc = "asleep" =>
              \/ sender'[u] = sender[u]
              \/ sender'[u].slot = f /\ sender'[u].channel = ch /\ sender'[u].tnow = tnow
    BY <1>2, <1>5, <1>7, <1>8, <1>11
  <2>5. HlsInv'
    BY <1>1, <1>2, <1>8, <1>11, <2>1, <2>2, <2>3, TakesInv
  <2>6. \A s \in Slots : Active(s) => Kept(s)
    BY <2>1, TakesKeeps DEF HlsInv
  <2> QED BY <1>9, <2>5, <2>6
<1> QED BY <1>10, <1>11

\* The wait is over: the record is still the channel's, unless it was overtaken.
LEMMA EstimateWakeKeeps ==
    ASSUME HlsInv, SentInv, NEW t \in Senders, EstimateWake(t)
    PROVE  /\ HlsInv' /\ SentInv'
           /\ \A s \in Slots : Active(s) => Kept(s)
<1> DEFINE ch == sender[t].channel
           f == sender[t].slot
           est == IF cls[f].key = 0 THEN 0 ELSE ch
           rec == [cls[f] EXCEPT !.est = est]
<1>1. /\ f \in Slots /\ ch \in Nat \ {0} /\ cls[f] \in SlotType /\ cls[f].tsaccess <= tnow
      /\ cls \in [Slots -> SlotType] /\ sender[t].pc = "asleep"
  BY DEF EstimateWake, HlsInv, HlsTypes, CallType
<1>2. /\ cls' = [cls EXCEPT ![f] = rec]
      /\ sender' = [sender EXCEPT ![t] = Resting]
      /\ UNCHANGED <<tnow, deletes, overlap, unsure>>
  BY <1>1 DEF EstimateWake
<1>3. /\ rec \in SlotType /\ rec.key = cls[f].key /\ rec.tsaccess = cls[f].tsaccess
      /\ rec.large_samples = cls[f].large_samples /\ rec.est = est
  BY <1>1 DEF SlotType
<1> HIDE DEF rec
<1>4. HlsTypes' /\ sender'[t] = Resting /\ \A u \in Senders : u /= t => sender'[u] = sender[u]
  <2>1. rec.tsaccess <= tnow /\ Resting.rest <= Resting.txbytes /\ Resting.tnow <= tnow
    BY <1>1, <1>3, RestingIs DEF HlsInv, HlsTypes
  <2> HIDE DEF f
  <2> QED BY <1>1, <1>2, <1>3, <2>1, RestingIs, WrittenTypes DEF HlsInv
<1>5. SentInv'
  BY <1>4, RestingIs, WireEmpty
<1>6. /\ \A s \in Slots : /\ cls'[s].key = cls[s].key
                          /\ cls'[s].tsaccess = cls[s].tsaccess
                          /\ cls'[s].large_samples = cls[s].large_samples
                          /\ s /= f => cls'[s] = cls[s]
      /\ cls'[f].est = est
  BY <1>1, <1>2, <1>3
<1>7. \A s \in Slots : Active(s) => Kept(s)
  BY <1>6 DEF Kept, HlsInv, HlsTypes, SlotType
<1>8. TableInv'
  <2>1. (~deletes /\ ~overlap => Apart) => (~deletes /\ ~overlap => Apart)'
    <3>1. \A s \in Slots : home(cls[s].key) \in Slots
      BY SMTT(30), SlotsAssumption DEF home, Slots, HlsInv, HlsTypes, SlotType
    <3> QED BY <1>2, <1>6, <3>1 DEF Apart, HomeTaken
  <2>2. ~unsure => cls[f].key = ch
    BY <1>1 DEF HlsInv, WaitInv
  <2>3. EstimateIsOwn'
    <3>1. ~unsure => cls'[f].est \in {0, cls'[f].key}
      BY <1>1, <1>6, <2>2
    <3> HIDE DEF f
    <3> QED BY <1>2, <1>6, <3>1 DEF HlsInv, TableInv, EstimateIsOwn
  <2> QED BY <1>2, <2>1, <2>3 DEF HlsInv, TableInv
<1>9. LookInv'
  <2>1. \A c \in Nat : SlotFor(c)' = SlotFor(c)
    BY <1>2, <1>6, SearchSame DEF HlsInv
  <2>2. \A s \in Slots : Idle(s)' = Idle(s)
    BY <1>2, <1>6 DEF Idle
  <2>3. \A u \in Senders : Looking(u)' => Looking(u) /\ sender'[u] = sender[u]
    BY <1>4, RestingIs DEF Looking
  <2>4. \A u \in Senders : Looking(u) => sender[u].slot \in Slots
    BY DEF HlsInv, HlsTypes, Looking
  <2> QED BY <1>2, <1>6, <2>1, <2>2, <2>3, <2>4 DEF HlsInv, LookInv
<1>10. WaitInv'
  <2>1. \A u \in Senders : sender'[u].pc = "asleep" => sender'[u] = sender[u] /\ sender[u].slot \in Slots
    BY <1>4, RestingIs DEF HlsInv, HlsTypes
  <2> QED BY <1>2, <1>6, <2>1 DEF HlsInv, WaitInv
<1> QED BY <1>4, <1>5, <1>7, <1>8, <1>9, <1>10 DEF HlsInv

-----------------------------------------------------------------------------
(* Time, and the other calls                                               *)

LEMMA HlsTickKeeps ==
    ASSUME HlsInv, SentInv, HlsTick
    PROVE  HlsInv' /\ SentInv' /\ \A s \in Slots : Active(s) => Kept(s)
<1>1. /\ \A t \in Senders : ~Looking(t) /\ (sender[t].pc = "asleep" => tnow - sender[t].tnow < MaxSleep)
      /\ tnow' = tnow + 1 /\ UNCHANGED <<cls, deletes, overlap, sender, unsure>>
  BY DEF HlsTick, Tick, callVars
<1> USE DEF HlsInv
<1>2. HlsTypes'
  BY <1>1 DEF HlsTypes, SlotType, CallType
<1>3. TableInv'
  BY <1>1 DEF TableInv, Apart, HomeTaken, EstimateIsOwn
<1>4. LookInv'
  BY <1>1 DEF LookInv, Looking
<1>5. WaitInv'
  <2>1. \A t \in Senders : sender[t].tnow \in Nat
    BY DEF HlsTypes, CallType
  <2>2. tnow \in Nat
    BY DEF HlsTypes
  <2> QED BY <1>1, <2>1, <2>2, CallsAssumption, SlotsAssumption DEF WaitInv
<1>6. SentInv'
  BY <1>1 DEF SentInv
<1>7. \A s \in Slots : Kept(s)
  BY <1>1 DEF Kept, HlsTypes, SlotType
<1> QED BY <1>2, <1>3, <1>4, <1>5, <1>6, <1>7

LEMMA UnchangedKeeps ==
    ASSUME HlsInv, SentInv, UNCHANGED hlsVars
    PROVE  HlsInv' /\ SentInv'
<1>1. UNCHANGED <<cls, tnow, deletes, overlap, sender, unsure>>
  BY DEF hlsVars, slotVars, callVars
<1>2. HlsTypes' /\ TableInv' /\ WaitInv' /\ SentInv'
  BY <1>1 DEF HlsInv, HlsTypes, TableInv, Apart, HomeTaken, EstimateIsOwn, WaitInv, SentInv
<1>3. \A c \in Nat : SlotFor(c)' = SlotFor(c)
  BY <1>1, SearchSame DEF HlsInv
<1>4. LookInv'
  BY <1>1, <1>3 DEF HlsInv, LookInv, Looking, Idle
<1> QED BY <1>2, <1>4 DEF HlsInv

LEMMA OtherCallKeeps ==
    ASSUME HlsInv, SentInv, NEW ch \in Channels, OtherCall(ch)
    PROVE  HlsInv' /\ SentInv' /\ \A s \in Slots : Active(s) => Kept(s)
<1> DEFINE f == SlotFor(ch)
<1>1. ch \in Nat /\ (\A u \in Senders : ~Looking(u)) /\ UNCHANGED <<sender, unsure>>
  BY SlotsAssumption DEF OtherCall, callVars
<1>2. SentInv'
  BY <1>1 DEF SentInv
<1>3. CASE Refused(ch)
  <2>1. UNCHANGED hlsVars
    BY <1>1, <1>3 DEF Refused, hlsVars, callVars
  <2>2. UNCHANGED cls
    BY <2>1 DEF hlsVars, slotVars
  <2> QED BY <2>1, <2>2, UnchangedKeeps DEF Kept, HlsInv, HlsTypes, SlotType
<1>4. ASSUME NEW rec, Takes(ch, rec), UNCHANGED overlap
      PROVE  HlsInv' /\ \A s \in Slots : Active(s) => Kept(s)
  <2>1. \A s \in Slots : Active(s) => Kept(s)
    BY <1>4, TakesKeeps DEF HlsInv
  <2>2. cls' \in [Slots -> SlotType] /\ \A s \in Slots : cls'[s].tsaccess <= tnow
    BY <1>4, TakesKeeps DEF HlsInv
  <2>3. HlsTypes'
    BY <1>1, <1>4, <2>2 DEF HlsInv, HlsTypes, Takes
  <2>4. \A u \in Senders : ~Looking(u)' /\ sender'[u] = sender[u]
    BY <1>1 DEF Looking
  <2> HIDE DEF f
  <2>5. HlsInv'
    BY <1>1, <1>4, <2>3, <2>4, TakesInv DEF f
  <2> QED BY <2>1, <2>5
<1>5. ASSUME Accepts(ch)
      PROVE  /\ ch /= 0 /\ f /= NoSlot /\ Claimed(f, ch) \in SlotType
             /\ Claimed(f, ch).key = ch /\ Claimed(f, ch).tsaccess = tnow
  BY <1>1, <1>5, Search, ClaimedIs DEF Accepts, HlsInv
<1>6. CASE Access(ch)
  <2>1. Accepts(ch) /\ cls' = [cls EXCEPT ![f] = Claimed(f, ch)] /\ UNCHANGED <<tnow, deletes, overlap>>
    BY <1>6 DEF Access
  <2>2. Takes(ch, Claimed(f, ch))
    BY <1>1, <1>5, <2>1 DEF Takes, SlotType
  <2> QED BY <1>2, <1>4, <2>1, <2>2
<1>7. CASE EstimateLarge(ch)
  <2> DEFINE rec == [Claimed(f, ch) EXCEPT !.large_samples = @ + 1, !.est = ch]
  <2>1. Accepts(ch) /\ cls' = [cls EXCEPT ![f] = rec] /\ UNCHANGED <<tnow, deletes, overlap>>
    BY <1>7 DEF EstimateLarge
  <2>2. /\ rec \in SlotType /\ rec.key = ch /\ rec.tsaccess = tnow /\ rec.est = ch
        /\ rec.large_samples >= Claimed(f, ch).large_samples
    <3> DEFINE c == Claimed(f, ch)
               n == c.large_samples + 1
    <3>1. c \in SlotType /\ c.key = ch /\ c.tsaccess = tnow
      BY <1>5, <2>1
    <3>2. rec = [c EXCEPT !.large_samples = n, !.est = ch]
      OBVIOUS
    <3> HIDE DEF c, rec
    <3>3. n \in Nat /\ n >= c.large_samples
      BY <3>1 DEF SlotType
    <3> HIDE DEF n
    <3>4. /\ rec.key = ch /\ rec.tsaccess = tnow /\ rec.est = ch /\ rec.large_samples = n
          /\ rec \in SlotType
      BY <1>1, <3>1, <3>2, <3>3 DEF SlotType
    <3> QED BY <3>3, <3>4 DEF c
  <2> HIDE DEF rec
  <2>3. Takes(ch, rec)
    BY <1>1, <1>5, <2>1, <2>2 DEF Takes
  <2> QED BY <1>2, <1>4, <2>1, <2>2, <2>3
<1> QED BY <1>3, <1>6, <1>7 DEF OtherCall

\* The slot that is freed is the channel's, or nobody active is in it.
LEMMA OtherDeleteKeeps ==
    ASSUME HlsInv, SentInv, NEW ch \in Channels, OtherDelete(ch)
    PROVE  /\ HlsInv' /\ SentInv' /\ deletes'
           /\ \A s \in Slots : Active(s) => Kept(s) \/ cls'[s].key = 0
<1> DEFINE f == SlotFor(ch)
<1>1. /\ ch \in Nat \ {0} /\ (\A u \in Senders : ~Looking(u)) /\ f /= NoSlot
      /\ cls' = [cls EXCEPT ![f] = Free] /\ deletes' /\ UNCHANGED <<tnow, overlap, sender>>
      /\ deletes' \in BOOLEAN
      /\ unsure' = (unsure \/ \E t \in Senders : sender[t].pc = "asleep" /\ sender[t].channel = ch)
  BY SlotsAssumption DEF OtherDelete, DeleteChannel, Accepts
<1>2. /\ f \in Slots
      /\ cls[f].key \in {0, ch} \/ Idle(f)
  BY <1>1, Search DEF HlsInv, Usable
<1> HIDE DEF f
<1>3. Free \in SlotType /\ Free.key = 0 /\ Free.tsaccess = 0
  BY DEF Free, SlotType
<1>4. /\ cls' \in [Slots -> SlotType] /\ cls'[f] = Free
      /\ \A s \in Slots : s /= f => cls'[s] = cls[s]
  BY <1>1, <1>2, <1>3 DEF HlsInv, HlsTypes
<1>5. HlsTypes'
  <2>1. \A s \in Slots : cls'[s].tsaccess <= tnow
    BY <1>3, <1>4 DEF HlsInv, HlsTypes
  <2>2. unsure' \in BOOLEAN
    BY <1>1
  <2> QED BY <1>1, <1>4, <2>1, <2>2 DEF HlsInv, HlsTypes
<1>6. SentInv'
  BY <1>1 DEF SentInv
<1>7. TableInv'
  <2>1. unsure => unsure'
    BY <1>1
  <2> QED BY <1>1, <1>3, <1>4, <2>1 DEF HlsInv, TableInv, EstimateIsOwn
<1>8. LookInv'
  BY <1>1 DEF LookInv, Looking
<1>9. WaitInv'
  <2> SUFFICES ASSUME ~unsure', NEW u \in Senders, sender[u].pc = "asleep"
               PROVE  cls'[sender[u].slot] = cls[sender[u].slot]
    BY <1>1 DEF HlsInv, WaitInv
  <2>1. ~unsure /\ sender[u].channel /= ch
    BY <1>1
  <2>2. sender[u].slot \in Slots /\ Active(sender[u].slot)
    BY <2>1, WaitedForIsActive
  <2>3. cls[sender[u].slot].key = sender[u].channel
    BY <2>1 DEF HlsInv, WaitInv
  <2>4. sender[u].slot /= f
    <3> SUFFICES ASSUME sender[u].slot = f PROVE FALSE
      OBVIOUS
    <3>1. Active(f) /\ cls[f].key /= ch
      BY <2>1, <2>2, <2>3
    <3>2. Idle(f)
      BY <1>2, <3>1 DEF Active
    <3> QED BY <1>2, <3>1, <3>2, SlotsAssumption DEF Active, Idle, HlsInv, HlsTypes, SlotType
  <2> QED BY <1>4, <2>2, <2>4
<1>10. \A s \in Slots : Kept(s) \/ cls'[s].key = 0
  BY <1>3, <1>4 DEF Kept, HlsInv, HlsTypes, SlotType
<1> QED BY <1>1, <1>5, <1>6, <1>7, <1>8, <1>9, <1>10 DEF HlsInv

-----------------------------------------------------------------------------
(* Every step                                                              *)

LEMMA HlsInvStep ==
    ASSUME HlsInv, SentInv, [HlsNext]_hlsVars
    PROVE  /\ HlsInv' /\ SentInv'
           /\ \/ UNCHANGED cls
              \/ \A s \in Slots : Active(s) => Kept(s)
              \/ deletes' /\ \A s \in Slots : Active(s) => Kept(s) \/ cls'[s].key = 0
              \/ overlap'
<1>1. CASE UNCHANGED hlsVars
  BY <1>1, UnchangedKeeps DEF hlsVars, slotVars
<1>2. CASE HlsTick
  BY <1>2, HlsTickKeeps
<1>3. ASSUME NEW ch \in Channels, OtherCall(ch) PROVE HlsInv' /\ SentInv' /\ \A s \in Slots : Active(s) => Kept(s)
  BY <1>3, OtherCallKeeps
<1>4. ASSUME NEW ch \in Channels, OtherDelete(ch)
      PROVE  /\ HlsInv' /\ SentInv' /\ deletes'
             /\ \A s \in Slots : Active(s) => Kept(s) \/ cls'[s].key = 0
  BY <1>4, OtherDeleteKeeps
<1>5. ASSUME NEW t \in Senders, SenderStep(t)
      PROVE  /\ HlsInv' /\ SentInv'
             /\ \/ UNCHANGED cls
                \/ \A s \in Slots : Active(s) => Kept(s)
                \/ overlap'
  <2>1. ASSUME NEW ch \in SenderChannels, NEW n \in ChunkSizes, SendCall(t, ch, n)
        PROVE  HlsInv' /\ SentInv' /\ UNCHANGED cls
    BY <2>1, SendCallKeeps DEF SendCall, slotVars
  <2>2. ASSUME NEW n \in 1 .. sender[t].rest - 1, SendPiece(t, n)
        PROVE  HlsInv' /\ SentInv' /\ UNCHANGED cls
    BY <2>2, SendPieceKeeps DEF SendPiece, slotVars
  <2>3. CASE SendLast(t)
    BY <2>3, SendLastKeeps DEF SendLast, slotVars
  <2>4. CASE SendOver(t) \/ EstimateFails(t)
    BY <2>4, ReturnKeeps DEF SendOver, EstimateFails, slotVars
  <2>5. CASE EstimateFind(t)
    BY <2>5, EstimateFindKeeps DEF EstimateFind
  <2>6. CASE EstimateRefused(t)
    BY <2>6, EstimateRefusedKeeps DEF EstimateRefused
  <2>7. CASE EstimateClaim(t)
    <3>1. UNCHANGED overlap
      BY <2>7 DEF EstimateClaim
    <3> QED BY <2>7, <3>1, EstimateClaimKeeps
  <2>8. CASE EstimateWake(t)
    BY <2>8, EstimateWakeKeeps
  <2> QED BY <1>5, <2>1, <2>2, <2>3, <2>4, <2>5, <2>6, <2>7, <2>8 DEF SenderStep
<1> QED BY <1>1, <1>2, <1>3, <1>4, <1>5 DEF HlsNext

LEMMA HlsInvNext == HlsInv /\ SentInv /\ [HlsNext]_hlsVars => (HlsInv /\ SentInv)'
  BY HlsInvStep

\* A channel is in one slot, as long as none is deleted and lookups do not fall into
\* one another (hs_get_client_slot).
THEOREM OneSlotForEach == HlsSpec => []OneSlot
<1>1. HlsInv => OneSlot
  BY DEF HlsInv, TableInv, Apart, OneSlot
<1> QED BY <1>1, HlsInvInit, HlsInvNext, PTL DEF HlsSpec

\* A record holds its own channel's estimate, although hls_estimate_bw writes it
\* through a pointer from before its wait.
THEOREM EstimatesAreOwn == HlsSpec => []EstimateIsOwn
<1>1. HlsInv => EstimateIsOwn
  BY DEF HlsInv, TableInv
<1> QED BY <1>1, HlsInvInit, HlsInvNext, PTL DEF HlsSpec

\* However the kernel takes a chunk apart, its bytes go out in order and once
\* (hls_send_and_estimate_bw).
THEOREM ChunksAreSent == HlsSpec => []SentInOrder
<1>1. SentInv => SentInOrder
  BY DEF SentInv, SentInOrder
<1> QED BY <1>1, HlsInvInit, HlsInvNext, PTL DEF HlsSpec

\* After a step an active channel's record is where the next call looks for it, unless
\* a channel was deleted or lookups fell into one another.
LEMMA FoundAgain ==
    ASSUME HlsTypes', Apart', NEW s \in Slots, NEW ch \in Nat \ {0}, cls'[s].key = ch
    PROVE  SlotFor(ch)' = s
<1>1. home(ch) \in Slots /\ cls'[home(ch)].key /= 0
  BY SlotsAssumption DEF home, Slots, Apart, HomeTaken
<1>2. \A r \in Slots : cls'[r].key = ch => r = s
  BY DEF Apart
<1>3. Of(ch)' = {s} /\ {s} \in SUBSET Nat
  BY <1>2 DEF Of, Slots
<1>4. Min({s}) = s
  BY <1>3, MinIsLeast
<1>5. CASE cls'[home(ch)].key = ch
  BY <1>1, <1>2, <1>5 DEF SlotFor, home
<1>6. CASE cls'[home(ch)].key /= ch
  <2>1. SlotFor(ch)' = Min(Of(ch))'
    BY <1>1, <1>3, <1>6 DEF SlotFor, home
  <2>2. Min(Of(ch))' = Min({s})
    BY <1>3 DEF Min
  <2> QED BY <1>4, <2>1, <2>2
<1> QED BY <1>5, <1>6

\* A call never takes the slot of another channel that is active, and as long as no
\* channel is deleted an active one finds its record again (hs_get_client_slot).
THEOREM ActiveIsKept == HlsSpec => ActiveKept
<1> DEFINE A == ~overlap' => \A s \in Slots, ch \in Channels :
                   cls[s].key = ch /\ ch /= 0 /\ tnow - cls[s].tsaccess <= IDLE_TIME_MS =>
                      /\ \/ /\ cls'[s].key = ch
                            /\ cls'[s].large_samples >= cls[s].large_samples
                         \/ deletes' /\ cls'[s].key = 0
                      /\ ~deletes' => SlotFor(ch)' = s
<1>1. HlsInv /\ SentInv /\ [HlsNext]_hlsVars =>
        [~overlap' => \A s \in Slots, ch \in Channels :
            cls[s].key = ch /\ ch /= 0 /\ tnow - cls[s].tsaccess <= IDLE_TIME_MS =>
               /\ \/ cls'[s].key = ch
                     /\ cls'[s].large_samples >= cls[s].large_samples
                  \/ deletes' /\ cls'[s].key = 0
               /\ ~deletes' => SlotFor(ch)' = s]_slotVars
  <2> SUFFICES ASSUME HlsInv, SentInv, [HlsNext]_hlsVars PROVE A
    OBVIOUS
  <2> SUFFICES ASSUME ~overlap', NEW s \in Slots, NEW ch \in Channels,
                      cls[s].key = ch, ch /= 0, Active(s)
               PROVE  /\ \/ /\ cls'[s].key = ch
                            /\ cls'[s].large_samples >= cls[s].large_samples
                         \/ deletes' /\ cls'[s].key = 0
                      /\ ~deletes' => SlotFor(ch)' = s
    BY DEF Active
  <2>1. cls[s] \in SlotType /\ HlsInv'
    BY HlsInvNext DEF HlsInv, HlsTypes
  <2>2. \/ cls'[s].key = ch /\ cls'[s].large_samples >= cls[s].large_samples
        \/ deletes' /\ cls'[s].key = 0
    <3>1. \/ UNCHANGED cls
          \/ \A r \in Slots : Active(r) => Kept(r)
          \/ deletes' /\ \A r \in Slots : Active(r) => Kept(r) \/ cls'[r].key = 0
      BY HlsInvStep
    <3> QED BY <2>1, <3>1 DEF Kept, SlotType
  <2>3. ASSUME ~deletes' PROVE SlotFor(ch)' = s
    <3>1. HlsTypes' /\ Apart' /\ cls'[s].key = ch
      BY <2>1, <2>2, <2>3 DEF HlsInv, TableInv
    <3>2. ch \in Nat \ {0}
      BY SlotsAssumption
    <3> QED BY <3>1, <3>2, FoundAgain
  <2> QED BY <2>2, <2>3
<1> QED BY <1>1, HlsInvInit, HlsInvNext, PTL DEF HlsSpec, ActiveKept

-----------------------------------------------------------------------------
(* The bounds of the records: valid channels, and the counts of the model. *)

Valid == {ch \in Channels : ch > 0 /\ ch < MAX_CHANNEL_ID}

RecordOK(r) ==
    /\ r.key \in Valid \cup {0}
    /\ r.large_samples <= MaxSamples
    /\ r.est \in Channels \cup {0}
    /\ r.key /= 0 => r.tsaccess > 0

CallOK(c) ==
    /\ c.pc /= "idle" => c.channel \in Channels
    /\ c.pc = "found" => c.channel \in Valid /\ c.tnow > 0

BoundsInv ==
    /\ \A s \in Slots : RecordOK(cls[s])
    /\ \A t \in Senders : CallOK(sender[t])
    /\ tnow <= MaxTime

\* What an action puts into the table and into a call is in bounds.
LEMMA BoundsKept ==
    ASSUME HlsTypes, BoundsInv,
           UNCHANGED cls \/ \E s \in Slots : \E r : cls' = [cls EXCEPT ![s] = r] /\ RecordOK(r),
           UNCHANGED sender
             \/ \E t \in Senders : \E c : sender' = [sender EXCEPT ![t] = c] /\ CallOK(c),
           tnow' <= MaxTime
    PROVE  BoundsInv'
<1>1. \A s \in Slots : RecordOK(cls'[s])
  BY DEF HlsTypes, BoundsInv
<1>2. \A t \in Senders : CallOK(sender'[t])
  BY DEF HlsTypes, BoundsInv
<1> QED BY <1>1, <1>2 DEF BoundsInv, RecordOK, CallOK

LEMMA ClaimedInBounds ==
    ASSUME HlsTypes, BoundsInv, NEW ch \in Channels, Accepts(ch)
    PROVE  SlotFor(ch) \in Slots /\ RecordOK(Claimed(SlotFor(ch), ch))
<1>1. ch \in Nat /\ ch \in Valid /\ SlotFor(ch) /= NoSlot /\ tnow \in Nat /\ tnow > 0
  BY SlotsAssumption DEF Accepts, Valid, HlsTypes
<1>2. SlotFor(ch) \in Slots
  BY <1>1, Search
<1>3. RecordOK(cls[SlotFor(ch)]) /\ cls[SlotFor(ch)] \in SlotType
  BY <1>2 DEF BoundsInv, HlsTypes
<1> QED BY <1>1, <1>2, <1>3, SlotsAssumption DEF RecordOK, Claimed, SlotType, Free

LEMMA ClaimedByInBounds ==
    ASSUME HlsTypes, BoundsInv, NEW t \in Senders, Looking(t)
    PROVE  /\ sender[t].slot \in Slots
           /\ RecordOK(ClaimedBy(t))
           /\ ClaimedBy(t) \in SlotType
<1>1. /\ sender[t].slot \in Slots /\ sender[t] \in CallType
      /\ CallOK(sender[t]) /\ sender[t].pc = "found"
  BY DEF HlsTypes, BoundsInv, Looking
<1>2. RecordOK(cls[sender[t].slot]) /\ cls[sender[t].slot] \in SlotType
  BY <1>1 DEF BoundsInv, HlsTypes
<1>3. sender[t].channel \in Valid /\ sender[t].tnow \in Nat /\ sender[t].tnow > 0
      /\ sender[t].channel \in Nat
  BY <1>1 DEF CallOK, CallType
<1>4. CASE sender[t].claims
  <2>1. ClaimedBy(t) = [Free EXCEPT !.key = sender[t].channel, !.tsaccess = sender[t].tnow]
    BY <1>4 DEF ClaimedBy
  <2>2. ClaimedBy(t) = [key |-> sender[t].channel, tsaccess |-> sender[t].tnow,
                        large_samples |-> 0, est |-> 0]
    BY <2>1 DEF Free
  <2> QED BY <1>1, <1>3, <2>2, SlotsAssumption DEF RecordOK, SlotType
<1>5. CASE ~sender[t].claims
  <2>1. ClaimedBy(t) = [cls[sender[t].slot] EXCEPT !.tsaccess = sender[t].tnow]
    BY <1>5 DEF ClaimedBy
  <2> QED BY <1>1, <1>2, <1>3, <2>1 DEF RecordOK, SlotType
<1> QED BY <1>4, <1>5

LEMMA BoundsInit == HlsInit => BoundsInv
  BY SlotsAssumption
  DEF HlsInit, SlotsInit, BoundsInv, RecordOK, CallOK, Free, Resting

LEMMA BoundsOther ==
    ASSUME HlsTypes, BoundsInv, NEW ch \in Channels, OtherCall(ch) \/ OtherDelete(ch)
    PROVE  BoundsInv'
<1>1. UNCHANGED <<sender, tnow>> /\ tnow' <= MaxTime
  BY DEF OtherCall, OtherDelete, Refused, Access, EstimateLarge, DeleteChannel, slotVars,
         callVars, BoundsInv
<1>2. CASE Refused(ch)
  BY <1>1, <1>2, BoundsKept DEF Refused, slotVars
<1>3. CASE Access(ch)
  BY <1>1, <1>3, BoundsKept, ClaimedInBounds DEF Access
<1>4. CASE EstimateLarge(ch)
  <2> DEFINE old == Claimed(SlotFor(ch), ch)
             new == [old EXCEPT !.large_samples = @ + 1, !.est = ch]
  <2>1. SlotFor(ch) \in Slots /\ RecordOK(old) /\ old.large_samples < MaxSamples
    BY <1>4, ClaimedInBounds DEF EstimateLarge
  <2>2. old \in SlotType
    BY <2>1, ClaimedIs, SlotsAssumption
  <2>3. RecordOK(new)
    <3> HIDE DEF old
    <3> QED BY <2>1, <2>2, SlotsAssumption DEF RecordOK, SlotType
  <2>4. cls' = [cls EXCEPT ![SlotFor(ch)] = new]
    BY <1>4 DEF EstimateLarge
  <2> QED BY <1>1, <2>1, <2>3, <2>4, BoundsKept
<1>5. CASE DeleteChannel(ch)
  <2>1. SlotFor(ch) \in Slots
    BY <1>5, ClaimedInBounds DEF DeleteChannel
  <2>2. RecordOK(Free)
    BY SlotsAssumption DEF RecordOK, Free
  <2> QED BY <1>1, <1>5, <2>1, <2>2, BoundsKept DEF DeleteChannel
<1> QED BY <1>2, <1>3, <1>4, <1>5 DEF OtherCall, OtherDelete

LEMMA BoundsSender ==
    ASSUME HlsTypes, BoundsInv, NEW t \in Senders, SenderStep(t)
    PROVE  BoundsInv'
<1>0. /\ sender[t] \in CallType /\ CallOK(sender[t]) /\ CallOK(Resting)
      /\ tnow <= MaxTime
  BY DEF HlsTypes, BoundsInv, CallOK, Resting
<1>1. ASSUME NEW ch \in SenderChannels, NEW n \in ChunkSizes, SendCall(t, ch, n)
      PROVE  BoundsInv'
  <2>1. CallOK([Resting EXCEPT !.pc = "send", !.channel = ch, !.txbytes = n, !.rest = n])
    BY CallsAssumption DEF CallOK, Resting
  <2> QED BY <1>0, <1>1, <2>1, BoundsKept DEF SendCall, slotVars
<1>2. CASE \/ \E n \in 1 .. sender[t].rest - 1 : SendPiece(t, n)
           \/ SendLast(t)
  <2>1. UNCHANGED slotVars
    BY <1>2 DEF SendPiece, SendLast
  <2>2. \E c : sender' = [sender EXCEPT ![t] = c] /\ c.pc \in {"send", "sent", "estimate"}
               /\ c.channel = sender[t].channel /\ sender[t].pc = "send"
    <3>1. ASSUME NEW n \in 1 .. sender[t].rest - 1, SendPiece(t, n)
          PROVE  /\ sender[t].pc = "send"
                 /\ sender' = [sender EXCEPT ![t] =
                       [sender[t] EXCEPT !.rest = @ - n, !.wire = @ \o Piece(t, n)]]
      BY <3>1, <1>0 DEF SendPiece, CallType, HlsTypes
    <3>2. ASSUME SendLast(t)
          PROVE  /\ sender[t].pc = "send"
                 /\ sender' = [sender EXCEPT ![t] =
                       [sender[t] EXCEPT !.wire = @ \o Piece(t, sender[t].rest),
                                         !.pc = IF sender[t].txbytes > MIN_TX_ESTIMATE_SZ
                                                  THEN "estimate" ELSE "sent"]]
      BY <3>2, <1>0 DEF SendLast, CallType, HlsTypes
    <3>3. ASSUME NEW n \in 1 .. sender[t].rest - 1, sender[t].pc = "send"
          PROVE  LET c == [sender[t] EXCEPT !.rest = @ - n, !.wire = @ \o Piece(t, n)]
                 IN  c.pc = "send" /\ c.channel = sender[t].channel
      BY <3>3, <1>0 DEF CallType
    <3>4. LET c == [sender[t] EXCEPT !.wire = @ \o Piece(t, sender[t].rest),
                                     !.pc = IF sender[t].txbytes > MIN_TX_ESTIMATE_SZ
                                              THEN "estimate" ELSE "sent"]
          IN  c.pc \in {"sent", "estimate"} /\ c.channel = sender[t].channel
      BY <1>0 DEF CallType
    <3> QED BY <1>2, <3>1, <3>2, <3>3, <3>4
  <2>3. PICK c : sender' = [sender EXCEPT ![t] = c] /\ CallOK(c)
    BY <1>0, <2>2 DEF CallOK
  <2> QED BY <1>0, <2>1, <2>3, BoundsKept DEF slotVars
<1>3. CASE SendOver(t) \/ EstimateFails(t)
  BY <1>0, <1>3, BoundsKept DEF SendOver, EstimateFails, slotVars
<1>4. CASE EstimateFind(t)
  <2> DEFINE ch == sender[t].channel
             c == [sender[t] EXCEPT !.pc = "found", !.slot = SlotFor(ch), !.tnow = tnow,
                       !.claims = cls[SlotFor(ch)].key /= ch \/ Idle(SlotFor(ch))]
  <2>1. sender' = [sender EXCEPT ![t] = IF Accepts(ch) THEN c ELSE Resting]
        /\ UNCHANGED <<cls, tnow>>
    BY <1>4 DEF EstimateFind
  <2>2. Accepts(ch) => ch \in Valid /\ tnow > 0
    BY <1>0, <1>4, SlotsAssumption DEF Accepts, Valid, HlsTypes, CallOK, EstimateFind
  <2>3. c.pc = "found" /\ c.channel = ch /\ c.tnow = tnow
    BY <1>0 DEF CallType
  <2>4. Accepts(ch) => CallOK(c)
    BY <1>0, <1>4, <2>2, <2>3 DEF CallOK, EstimateFind
  <2>5. CallOK(IF Accepts(ch) THEN c ELSE Resting)
    BY <1>0, <2>4
  <2> QED BY <1>0, <2>1, <2>5, BoundsKept
<1>5. CASE EstimateRefused(t)
  <2>1. sender[t].slot \in Slots /\ RecordOK(ClaimedBy(t))
    BY <1>5, ClaimedByInBounds DEF EstimateRefused
  <2> QED BY <1>0, <1>5, <2>1, BoundsKept DEF EstimateRefused
<1>6. CASE EstimateClaim(t)
  <2> DEFINE large == ClaimedBy(t).est = 0 \/ sender[t].rest > LargeSize
             r == [ClaimedBy(t) EXCEPT !.large_samples = IF large THEN @ + 1 ELSE @]
             c == [Resting EXCEPT !.pc = "asleep", !.channel = sender[t].channel,
                                  !.slot = sender[t].slot, !.tnow = sender[t].tnow]
  <2>1. /\ sender[t].slot \in Slots /\ RecordOK(ClaimedBy(t)) /\ ClaimedBy(t) \in SlotType
    BY <1>6, ClaimedByInBounds DEF EstimateClaim
  <2>2. /\ large => ClaimedBy(t).large_samples < MaxSamples
        /\ cls' = [cls EXCEPT ![sender[t].slot] = r]
        /\ \/ sender' = [sender EXCEPT ![t] = Resting]
           \/ sender' = [sender EXCEPT ![t] = c]
        /\ UNCHANGED tnow
    BY <1>6 DEF EstimateClaim
  <2>3. RecordOK(r)
    <3> HIDE DEF large
    <3> QED BY <2>1, <2>2, SlotsAssumption DEF RecordOK, SlotType
  <2>4. CallOK(c)
    BY <1>0, <1>6 DEF CallOK, Resting, EstimateClaim, Looking
  <2> HIDE DEF large, r, c
  <2> QED BY <1>0, <2>1, <2>2, <2>3, <2>4, BoundsKept
<1>7. CASE EstimateWake(t)
  <2> DEFINE r == [cls[sender[t].slot] EXCEPT
                      !.est = IF cls[sender[t].slot].key = 0 THEN 0 ELSE sender[t].channel]
  <2>1. /\ sender[t].slot \in Slots /\ sender[t].channel \in Channels
        /\ cls[sender[t].slot] \in SlotType /\ RecordOK(cls[sender[t].slot])
    BY <1>0, <1>7 DEF EstimateWake, HlsTypes, CallOK, BoundsInv
  <2>2. cls' = [cls EXCEPT ![sender[t].slot] = r]
    BY <1>7, <2>1 DEF EstimateWake, HlsTypes, SlotType
  <2>3. RecordOK(r)
    BY <2>1 DEF RecordOK, SlotType
  <2> HIDE DEF r
  <2> QED BY <1>0, <1>7, <2>1, <2>2, <2>3, BoundsKept DEF EstimateWake
<1> QED BY <1>1, <1>2, <1>3, <1>4, <1>5, <1>6, <1>7 DEF SenderStep

LEMMA BoundsNext == HlsInv /\ BoundsInv /\ [HlsNext]_hlsVars => BoundsInv'
<1> SUFFICES ASSUME HlsInv, BoundsInv, [HlsNext]_hlsVars PROVE BoundsInv'
  OBVIOUS
<1>0. HlsTypes
  BY DEF HlsInv
<1>1. CASE HlsTick
  <2>1. UNCHANGED <<cls, sender>> /\ tnow' <= MaxTime
    BY <1>0, <1>1, SlotsAssumption DEF HlsTick, Tick, callVars, HlsTypes
  <2> QED BY <1>0, <2>1, BoundsKept
<1>2. CASE UNCHANGED hlsVars
  <2>1. UNCHANGED <<cls, sender, tnow>>
    BY <1>2 DEF hlsVars, slotVars, callVars
  <2> QED BY <1>0, <2>1, BoundsKept DEF BoundsInv
<1> QED BY <1>0, <1>1, <1>2, BoundsOther, BoundsSender DEF HlsNext

-----------------------------------------------------------------------------
(* The allowed rates                                                       *)

LEMMA MinOfTwo ==
    ASSUME NEW a \in Nat, NEW b \in Nat
    PROVE  Min({a, b}) \in {a, b} /\ Min({a, b}) <= a /\ Min({a, b}) <= b
<1>1. {a, b} \in SUBSET Nat /\ {a, b} /= {} OBVIOUS
<1> QED BY <1>1, MinIsLeast, Zenon

LEMMA MaxOfTwo ==
    ASSUME NEW a \in Nat, NEW b \in Nat
    PROVE  Max({a, b}) \in {a, b}
<1>1. \E x \in {a, b} : \A y \in {a, b} : x >= y
  OBVIOUS
<1> QED BY <1>1 DEF Max

LEMMA LookedIs ==
    /\ IsFiniteSet(Looked)
    /\ g_num_bitrates \in Nat \ {0}
    /\ Looked /= {} => g_num_bitrates = Cardinality(Looked)
    /\ Looked = {} => g_num_bitrates = 4
    /\ Positive \subseteq Nat \ {0}
    /\ \A i \in Looked : allowed_video_bitrates[i] \in Positive
<1> DEFINE n == Min({Len(allowed_video_bitrates), NUM_BITRATES})
<1>1. n \in Nat /\ n <= Len(allowed_video_bitrates)
  BY RatesAssumption, MinOfTwo, LenProperties
<1>2. IsFiniteSet(1 .. n)
  BY <1>1, FS_Interval
<1>3. Looked \in SUBSET (1 .. n)
  BY DEF Looked
<1>4. IsFiniteSet(Looked)
  BY <1>2, <1>3, FS_Subset
<1>5. \A i \in Looked : allowed_video_bitrates[i] \in Int /\ allowed_video_bitrates[i] > 0
  BY <1>1, <1>3, RatesAssumption, ElementOfSeq DEF Looked
<1>6. CASE Looked = {}
  <2>1. Len(StaticBitrates) = 4
    BY DEF StaticBitrates
  <2> QED BY <1>4, <1>6, <2>1 DEF g_num_bitrates, Positive
<1>7. CASE Looked /= {}
  <2>1. Cardinality(Looked) \in Nat \ {0}
    BY <1>4, <1>7, FS_EmptySet, FS_CardinalityType
  <2> QED BY <1>4, <1>5, <1>7, <2>1 DEF g_num_bitrates, Positive
<1> QED BY <1>6, <1>7

LEMMA NotAboveIs ==
    ASSUME NEW rate
    PROVE  /\ NotAbove(rate) \in SUBSET Looked
           /\ IsFiniteSet(NotAbove(rate))
           /\ Cardinality(NotAbove(rate)) \in Nat
  BY LookedIs, FS_Subset, FS_CardinalityType DEF NotAbove

\* One rate is above none of the others.
LEMMA GreatestRate ==
    ASSUME Looked /= {}
    PROVE  \E rate \in Positive : NotAbove(rate) = Looked
<1> DEFINE Size(i) == Cardinality(Looked \ NotAbove(allowed_video_bitrates[i]))
           Sizes == {Size(i) : i \in Looked}
<1>1. \A i \in Looked : /\ IsFiniteSet(Looked \ NotAbove(allowed_video_bitrates[i]))
                        /\ Size(i) \in Nat
  <2>1. \A i \in Looked : Looked \ NotAbove(allowed_video_bitrates[i]) \in SUBSET Looked
    OBVIOUS
  <2> QED BY <2>1, LookedIs, FS_Subset, FS_CardinalityType
<1>3. Sizes \in SUBSET Nat /\ Sizes /= {}
  BY <1>1
<1>4. PICK i \in Looked : \A j \in Looked : Size(i) <= Size(j)
  <2>1. \E i \in Looked : Size(i) = Min(Sizes)
    <3>1. Min(Sizes) \in Sizes
      <4> HIDE DEF Sizes
      <4> QED BY <1>3, MinIsLeast
    <3> QED BY <3>1
  <2>2. \A j \in Looked : Min(Sizes) <= Size(j)
    <3>1. \A s \in Sizes : Min(Sizes) <= s
      <4> HIDE DEF Sizes
      <4> QED BY <1>3, MinIsLeast
    <3> QED BY <3>1
  <2> QED BY <2>1, <2>2
<1>5. \A j \in Looked : allowed_video_bitrates[j] <= allowed_video_bitrates[i]
  <2> SUFFICES ASSUME NEW j \in Looked,
                      ~(allowed_video_bitrates[j] <= allowed_video_bitrates[i])
               PROVE  FALSE
    OBVIOUS
  <2> DEFINE A == Looked \ NotAbove(allowed_video_bitrates[i])
             B == Looked \ NotAbove(allowed_video_bitrates[j])
  <2>0. \A k \in Looked : allowed_video_bitrates[k] \in Nat
    BY LookedIs
  <2>1. B \in SUBSET A
    BY <2>0 DEF NotAbove
  <2>2. j \in A /\ j \notin B
    BY <2>0 DEF NotAbove
  <2>3. Cardinality(B) <= Cardinality(A) /\ (Cardinality(A) = Cardinality(B) => A = B)
    <3> HIDE DEF A, B
    <3> QED BY <1>1, <2>1, FS_Subset DEF A
  <2>4. Size(i) <= Size(j) /\ Size(i) \in Nat /\ Size(j) \in Nat
    BY <1>1, <1>4
  <2> QED BY <2>2, <2>3, <2>4
<1>6. NotAbove(allowed_video_bitrates[i]) = Looked
  BY <1>5 DEF NotAbove
<1> QED BY <1>6, LookedIs

LEMMA AtLeastIs ==
    ASSUME Looked /= {}, NEW k \in 1 .. g_num_bitrates
    PROVE  /\ AtLeast(k) \in SUBSET Nat
           /\ AtLeast(k) /= {}
           /\ g_sorted_allowed_bitrates[k] = Min(AtLeast(k))
           /\ g_sorted_allowed_bitrates[k] \in AtLeast(k)
           /\ \A rate \in AtLeast(k) : g_sorted_allowed_bitrates[k] <= rate
<1>1. PICK rate \in Positive : NotAbove(rate) = Looked
  BY GreatestRate
<1>2. rate \in AtLeast(k)
  BY <1>1, LookedIs DEF AtLeast
<1>3. AtLeast(k) \in SUBSET Nat /\ AtLeast(k) /= {}
  BY <1>2, LookedIs DEF AtLeast
<1>4. g_sorted_allowed_bitrates[k] = Min(AtLeast(k))
  BY DEF g_sorted_allowed_bitrates
<1> QED BY <1>3, <1>4, MinIsLeast

\* The table holds its rates in ascending order.
LEMMA SortedRates ==
    /\ \A k \in 1 .. g_num_bitrates :
          g_sorted_allowed_bitrates[k] \in Rates /\ g_sorted_allowed_bitrates[k] \in Nat
    /\ \A k, l \in 1 .. g_num_bitrates :
          k <= l => g_sorted_allowed_bitrates[k] <= g_sorted_allowed_bitrates[l]
    /\ Rates \subseteq Nat
<1>1. CASE Looked /= {}
  <2>1. ASSUME NEW k \in 1 .. g_num_bitrates
        PROVE  g_sorted_allowed_bitrates[k] \in Nat
    BY <1>1, AtLeastIs
  <2>2. ASSUME NEW k \in 1 .. g_num_bitrates, NEW l \in 1 .. g_num_bitrates, k <= l
        PROVE  g_sorted_allowed_bitrates[k] <= g_sorted_allowed_bitrates[l]
    <3>1. g_sorted_allowed_bitrates[l] \in AtLeast(l)
      BY <1>1, AtLeastIs
    <3>2. AtLeast(l) \subseteq AtLeast(k)
      BY <2>2, NotAboveIs, LookedIs DEF AtLeast
    <3> QED BY <1>1, <3>1, <3>2, AtLeastIs
  <2> QED BY <2>1, <2>2 DEF Rates
<1>2. CASE Looked = {} /\ allowed_video_bitrates = <<>>
  <2>1. g_num_bitrates = 4
    BY <1>2, LookedIs
  <2>2. \A k \in 1 .. 4 : g_sorted_allowed_bitrates[k] = StaticBitrates[k]
    BY <1>2, <2>1 DEF g_sorted_allowed_bitrates
  <2>3. /\ g_sorted_allowed_bitrates[1] = 128000 /\ g_sorted_allowed_bitrates[2] = 256000
        /\ g_sorted_allowed_bitrates[3] = 512000 /\ g_sorted_allowed_bitrates[4] = 1024000
    BY <2>2 DEF StaticBitrates
  <2>4. \A k \in 1 .. g_num_bitrates : k = 1 \/ k = 2 \/ k = 3 \/ k = 4
    BY <2>1
  <2> HIDE DEF g_sorted_allowed_bitrates
  <2>5. \A k \in 1 .. g_num_bitrates : g_sorted_allowed_bitrates[k] \in Nat
    BY <2>3, <2>4
  <2>6. \A k, l \in 1 .. g_num_bitrates :
          k <= l => g_sorted_allowed_bitrates[k] <= g_sorted_allowed_bitrates[l]
    BY <2>3, <2>4
  <2> QED BY <2>5, <2>6 DEF Rates
<1>3. CASE Looked = {} /\ allowed_video_bitrates /= <<>>
  <2>1. \A k \in 1 .. g_num_bitrates : g_sorted_allowed_bitrates[k] = 0
    BY <1>3 DEF g_sorted_allowed_bitrates
  <2> QED BY <2>1 DEF Rates
<1> QED BY <1>1, <1>2, <1>3

\* A rate above another one of the table is not below the one advised for a trend.
LEMMA OptIsNext ==
    /\ g_optBps \in Nat /\ g_optBps \in Rates \cup {0}
    /\ \A rate, other \in Rates : other < rate => g_optBps <= rate
<1>1. CASE Looked = {}
  <2>1. g_optBps = 0
    BY <1>1 DEF g_optBps, Derived
  <2> QED BY <2>1, SortedRates
<1>2. CASE Looked /= {}
  <2> DEFINE o == IF g_num_bitrates > 1 THEN 2 ELSE 1
  <2>1. o \in 1 .. g_num_bitrates /\ g_optBps = g_sorted_allowed_bitrates[o]
    BY <1>2, LookedIs DEF g_optBps, Derived
  <2>2. ASSUME NEW rate \in Rates, NEW other \in Rates, other < rate
        PROVE  g_optBps <= rate
    <3>1. PICK k \in 1 .. g_num_bitrates : rate = g_sorted_allowed_bitrates[k]
      BY DEF Rates
    <3>2. PICK l \in 1 .. g_num_bitrates : other = g_sorted_allowed_bitrates[l]
      BY DEF Rates
    <3>3. ~(k <= l)
      BY <2>2, <3>1, <3>2, SortedRates
    <3>4. o <= k
      BY <3>3, LookedIs
    <3> QED BY <2>1, <3>1, <3>4, SortedRates
  <2> QED BY <2>1, <2>2, SortedRates
<1> QED BY <1>1, <1>2

\* hs_get_config_allowed_bps answers with a rate of the table.
LEMMA AllowedIndexIs ==
    ASSUME NEW rate \in Nat
    PROVE  AllowedIndex(rate) \in 1 .. g_num_bitrates
<1> DEFINE g == g_sorted_allowed_bitrates
           n == g_num_bitrates
           S == {i \in 1 .. n : g[i] <= rate /\ (rate /= g[i] => g[i + 1] > rate)}
<1>1. \A k \in 1 .. n : g[k] \in Nat
  BY SortedRates
<1>2. n \in Nat \ {0}
  BY LookedIs
<1>3. CASE rate <= g[1] \/ rate >= g[n]
  BY <1>2, <1>3 DEF AllowedIndex
<1>4. CASE ~(rate <= g[1]) /\ ~(rate >= g[n])
  <2> DEFINE T == {i \in 1 .. n : g[i] > rate}
  <2>1. n \in T /\ T \in SUBSET Nat
    BY <1>1, <1>2, <1>4
  <2>2. PICK i \in T : \A k \in T : i <= k
    BY <2>1, MinIsLeast
  <2>3. i /= 1
    BY <1>1, <1>2, <1>4, <2>2
  <2>4. i - 1 \in 1 .. n /\ i - 1 \notin T
    BY <1>2, <2>2, <2>3
  <2>5. g[i - 1] <= rate /\ g[(i - 1) + 1] > rate
    BY <1>1, <2>2, <2>4
  <2>6. i - 1 \in S /\ S \in SUBSET Nat
    BY <2>4, <2>5
  <2>7. Min(S) \in S
    BY <2>6, MinIsLeast
  <2>8. AllowedIndex(rate) = Min(S)
    BY <1>4 DEF AllowedIndex
  <2> QED BY <2>7, <2>8
<1> QED BY <1>3, <1>4

-----------------------------------------------------------------------------
(* The invariant.  What waits for a higher rate began after the last call  *)
(* that saw a lower one.                                                   *)

RateOrNone == Rates \cup {0}

Reported == PlayerRates \cup {0}

Advised == Rates \cup {0, HS_MEDIA_OK_RATE}

CiType ==
    [large_samples : 0 .. MaxAdviceSamples, i_rtt_ms : Nat, bwe : Nat, net : Net,
     first_Bwe : RateOrNone, bpsSwitched : Reported,
     incReq : 0 .. MaxAdviceSamples, decReq : 0 .. MaxAdviceSamples,
     lvl_tried : 0 .. MAX_MEDIA_LVL_TRIED + 1,
     curTrend : {"none", "LOW_TO_HIGH", "HIGH_TO_LOW"}, trending : BOOLEAN,
     LowToHigh : Nat, HighToLow : Nat,
     trendMinBps : Reported, trendMaxBps : Reported, inOptBpsTrend : BOOLEAN,
     sub_LowToHigh : Nat, sub_HighToLow : Nat]

AdviceTypes ==
    /\ ci \in CiType
    /\ curbps \in PlayerRates
    /\ advice \in Advised
    /\ lowSeen \in Int

WaitsInv ==
    /\ lowSeen <= ci.large_samples
    /\ ci.incReq /= 0 => lowSeen <= ci.incReq
    /\ ci.bpsSwitched = 0 => ci.incReq = 0

AdviceInv == AdviceTypes /\ WaitsInv

LEMMA AdviceInvInit == AdviceInit => AdviceInv
  BY AdviceAssumption
  DEF AdviceInit, AdviceInv, AdviceTypes, WaitsInv, CiType, RateOrNone, Reported, Advised, Net

LEMMA Matched ==
    ASSUME NEW rtt \in Nat
    PROVE  MatchBpsRtt(rtt) \in Nat
  BY DEF MatchBpsRtt

\* The predicted rate is one of the table.
LEMMA PredictedRate ==
    ASSUME ci \in CiType
    PROVE  /\ Index \in 1 .. g_num_bitrates
           /\ bps \in Rates
<1>1. ci.i_rtt_ms \in Nat /\ ci.bwe \in Nat /\ ci.first_Bwe \in Nat
  <2>1. RateOrNone \subseteq Nat
    BY SortedRates DEF RateOrNone
  <2>2. ci.i_rtt_ms \in Nat /\ ci.bwe \in Nat /\ ci.first_Bwe \in RateOrNone
    BY DEF CiType
  <2> QED BY <2>1, <2>2
<1>2. MatchBpsRtt(ci.i_rtt_ms) \in Nat
  BY <1>1, Matched
<1>3. Predicted \in Nat
  BY <1>1, <1>2 DEF Predicted, Least
<1>4. Index \in 1 .. g_num_bitrates
  BY <1>3, AllowedIndexIs DEF Index
<1> QED BY <1>4, SortedRates DEF bps

\* What a call may do to the record besides the count it waits with.
Counts(c, d) ==
    /\ d \in CiType
    /\ d.large_samples = c.large_samples
    /\ d.bpsSwitched = c.bpsSwitched
    /\ d.net = c.net
    /\ d.incReq = c.incReq

TdType == [min : RateOrNone, max : RateOrNone, freq : Nat]

LEMMA NewTrendIs ==
    ASSUME NEW c \in CiType
    PROVE  Counts(c, NewTrend(c))
  BY DEF CiType, NewTrend, Reported, Counts

LEMMA SubTrendIs ==
    ASSUME NEW c \in CiType, NEW b \in Rates, NEW freq \in Nat
    PROVE  Counts(c, SubTrend(c, b, freq))
<1> DEFINE up   == CASE b = c.trendMinBps -> Min({c.sub_LowToHigh + 1, MaxSwitches})
                     [] b = c.trendMaxBps /\ b /= c.trendMinBps -> c.sub_LowToHigh
                     [] OTHER -> 0
           down == CASE b = c.trendMinBps -> c.sub_HighToLow
                     [] b = c.trendMaxBps /\ b /= c.trendMinBps ->
                           Min({c.sub_HighToLow + 1, MaxSwitches})
                     [] OTHER -> 0
<1>1. c.sub_LowToHigh \in Nat /\ c.sub_HighToLow \in Nat
  BY DEF CiType
<1>2. /\ Min({c.sub_LowToHigh + 1, MaxSwitches}) \in Nat
      /\ Min({c.sub_HighToLow + 1, MaxSwitches}) \in Nat
  <2>1. c.sub_LowToHigh + 1 \in Nat /\ c.sub_HighToLow + 1 \in Nat /\ MaxSwitches \in Nat
    BY <1>1, AdviceAssumption
  <2> QED BY <2>1, MinOfTwo
<1>3. up \in Nat /\ down \in Nat
  BY <1>1, <1>2
<1>4. SubTrend(c, b, freq) = IF up >= freq /\ down >= freq
          THEN [c EXCEPT !.sub_LowToHigh = 0, !.sub_HighToLow = 0]
          ELSE [c EXCEPT !.sub_LowToHigh = up, !.sub_HighToLow = down]
  BY DEF SubTrend
<1> HIDE DEF up, down
<1>5. ASSUME NEW m \in Nat, NEW n \in Nat
      PROVE  Counts(c, [c EXCEPT !.sub_LowToHigh = m, !.sub_HighToLow = n])
  BY DEF CiType, Counts
<1>6. /\ Counts(c, [c EXCEPT !.sub_LowToHigh = 0, !.sub_HighToLow = 0])
      /\ Counts(c, [c EXCEPT !.sub_LowToHigh = up, !.sub_HighToLow = down])
  BY <1>3, <1>5
<1> QED BY <1>4, <1>6, Zenon

\* get_trend_bps settles on a rate of the table, the one the neighbours ask
\* for or g_optBps.
LEMMA TrendIs ==
    ASSUME NEW c \in CiType, NEW b \in Rates, NEW td \in TdType, NEW expired \in BOOLEAN
    PROVE  /\ Trend(c, b, td, expired).bps \in RateOrNone
           /\ td = NoNeighbour => Trend(c, b, td, expired).bps \in {0, g_optBps}
           /\ Counts(c, Trend(c, b, td, expired).ci)
<1> DEFINE opt  == IF td.min = 0 THEN g_optBps ELSE td.min
           freq == IF td.freq = 0 THEN TREND_FREQ ELSE td.freq
           in   == [c EXCEPT !.inOptBpsTrend = TRUE]
<1>1. freq \in Nat /\ opt \in RateOrNone
  BY AdviceAssumption, OptIsNext DEF TdType, RateOrNone
<1>2. Counts(c, NewTrend(c)) /\ Counts(c, SubTrend(c, b, freq)) /\ Counts(c, c)
  <2> HIDE DEF freq
  <2> QED BY <1>1, NewTrendIs, SubTrendIs DEF Counts
<1>3. Counts(c, in)
  BY DEF CiType, Counts
<1>4. \/ Trend(c, b, td, expired) = [bps |-> 0, ci |-> NewTrend(c)]
      \/ Trend(c, b, td, expired) = [bps |-> opt, ci |-> SubTrend(c, b, freq)]
      \/ Trend(c, b, td, expired) = [bps |-> opt, ci |-> in]
      \/ Trend(c, b, td, expired) = [bps |-> 0, ci |-> c]
  BY Zenon DEF Trend
<1>5. td = NoNeighbour => opt = g_optBps
  BY DEF NoNeighbour
<1> HIDE DEF opt, freq, in
<1> QED BY <1>1, <1>2, <1>3, <1>4, <1>5 DEF RateOrNone

-----------------------------------------------------------------------------
(* The steps.  A call answers with a record that differs in its counts     *)
(* only, and in what it waits with.                                        *)

\* What a call leaves, once it has answered with a rate.
Answers(c, rate) ==
    /\ c \in CiType
    /\ c.large_samples = ci.large_samples
    /\ c.bpsSwitched = ci.bpsSwitched
    /\ rate \in Advised
    /\ \/ c.incReq = 0
       \/ c.incReq = ci.incReq /\ ~(bps < curbps)
       \/ c.incReq = ci.large_samples /\ ~(bps < curbps) /\ ci.bpsSwitched /= 0

LEMMA AnswerKeeps ==
    ASSUME AdviceInv, NEW c, NEW rate, Answers(c, rate), Answer(c, rate)
    PROVE  AdviceInv'
<1>1. ci \in CiType /\ ci' = c /\ c \in CiType
  BY DEF Answer, Answers, AdviceInv, AdviceTypes
<1>2. /\ ci.large_samples \in Nat /\ ci.incReq \in Nat
      /\ c.large_samples = ci.large_samples /\ c.bpsSwitched = ci.bpsSwitched
  BY <1>1, AdviceAssumption DEF CiType, Answers
<1>3. lowSeen' = (IF bps < curbps THEN ci.large_samples ELSE lowSeen) /\ curbps' = curbps
      /\ advice' = rate /\ rate \in Advised
  BY DEF Answer, Answers
<1>4. AdviceTypes'
  BY <1>1, <1>2, <1>3 DEF AdviceInv, AdviceTypes
<1>5. WaitsInv'
  BY <1>1, <1>2, <1>3 DEF AdviceInv, AdviceTypes, WaitsInv, Answers
<1> QED BY <1>4, <1>5 DEF AdviceInv

\* The record that the trend is asked with differs from the channel's in what the
\* patient rules count.
LEMMA AnswerTrendIs ==
    ASSUME AdviceInv, NEW c \in CiType, NEW td \in TdType, AnswerTrend(c, td)
    PROVE  \E d, rate :
              /\ Answer(d, rate) /\ Counts(c, d) /\ rate \in RateOrNone
              /\ td = NoNeighbour => rate \in {0, g_optBps, bps}
<1>1. ci \in CiType
  BY DEF AdviceInv, AdviceTypes
<1>2. bps \in Rates
  BY <1>1, PredictedRate
<1>3. PICK expired \in BOOLEAN :
         Answer(Trend(c, bps, td, expired).ci,
                IF Trend(c, bps, td, expired).bps = curbps THEN 0
                ELSE IF Trend(c, bps, td, expired).bps /= 0
                       THEN Trend(c, bps, td, expired).bps ELSE bps)
  BY DEF AnswerTrend
<1>4. /\ Trend(c, bps, td, expired).bps \in RateOrNone
      /\ td = NoNeighbour => Trend(c, bps, td, expired).bps \in {0, g_optBps}
      /\ Counts(c, Trend(c, bps, td, expired).ci)
  BY <1>2, TrendIs
<1> QED BY <1>2, <1>3, <1>4, Zenon DEF RateOrNone

LEMMA NoNeighbourIs == NoNeighbour \in TdType
  BY DEF NoNeighbour, TdType, RateOrNone

\* What the rule for the extremes answers: a rate as the trend has it, going down, or
\* no more than the OK rate from a poor one.
LEMMA AnswerExtremesIs ==
    ASSUME AdviceInv, NEW c \in CiType, NEW td \in TdType, AnswerExtremes(c, td)
    PROVE  \E d, rate :
              /\ Answer(d, rate) /\ rate \in Advised
              /\ \/ Counts(c, d)
                 \/ Counts([c EXCEPT !.incReq = 0], d)
              /\ \/ rate = 0
                 \/ /\ bps <= HS_MEDIA_POOR_RATE
                    /\ c.bpsSwitched >= HS_MEDIA_REASONABLE_RATE
                    /\ td = NoNeighbour => rate \in {0, g_optBps, bps}
                 \/ /\ c.bpsSwitched <= HS_MEDIA_POOR_RATE
                    /\ bps >= HS_MEDIA_REASONABLE_RATE
                    /\ curbps <= HS_MEDIA_POOR_RATE => rate <= HS_MEDIA_OK_RATE
<1>1. ci \in CiType
  BY DEF AdviceInv, AdviceTypes
<1>2. bps \in Rates /\ bps \in Nat /\ curbps \in Nat
  BY <1>1, PredictedRate, SortedRates, RatesAssumption DEF AdviceInv, AdviceTypes
<1>0. RateOrNone \subseteq Advised
  BY DEF RateOrNone, Advised
<1>3. CASE /\ bps <= HS_MEDIA_POOR_RATE
           /\ c.bpsSwitched >= HS_MEDIA_REASONABLE_RATE
           /\ AnswerTrend(c, td)
  BY <1>0, <1>3, AnswerTrendIs, Zenon
<1>4. CASE /\ c.bpsSwitched <= HS_MEDIA_POOR_RATE
           /\ bps >= HS_MEDIA_REASONABLE_RATE
           /\ \E expired \in BOOLEAN :
                 LET trend == Trend([c EXCEPT !.incReq = 0], bps, td, expired)
                 IN  Answer(trend.ci,
                            IF trend.bps = curbps THEN 0
                            ELSE Stepped(IF trend.bps /= 0 THEN trend.bps ELSE bps))
  <2> DEFINE e == [c EXCEPT !.incReq = 0]
  <2>1. e \in CiType
    BY AdviceAssumption DEF CiType
  <2>2. PICK expired \in BOOLEAN :
           Answer(Trend(e, bps, td, expired).ci,
                  IF Trend(e, bps, td, expired).bps = curbps THEN 0
                  ELSE Stepped(IF Trend(e, bps, td, expired).bps /= 0
                                 THEN Trend(e, bps, td, expired).bps ELSE bps))
    BY <1>4
  <2>3. Counts(e, Trend(e, bps, td, expired).ci) /\ Trend(e, bps, td, expired).bps \in RateOrNone
    <3> HIDE DEF e
    <3> QED BY <1>2, <2>1, TrendIs
  <2>4. ASSUME NEW r \in Rates
        PROVE  /\ Stepped(r) \in Advised
               /\ curbps <= HS_MEDIA_POOR_RATE => Stepped(r) <= HS_MEDIA_OK_RATE
    <3>1. r \in Nat BY SortedRates
    <3> QED BY <3>1 DEF Stepped, HS_MEDIA_OK_RATE, Advised
  <2>5. ASSUME NEW r \in RateOrNone
        PROVE  LET x == IF r = curbps THEN 0 ELSE Stepped(IF r /= 0 THEN r ELSE bps)
               IN  /\ x \in Advised
                   /\ x = 0 \/ (curbps <= HS_MEDIA_POOR_RATE => x <= HS_MEDIA_OK_RATE)
    BY <1>2, <2>4, Zenon DEF RateOrNone, Advised
  <2> HIDE DEF e
  <2> QED BY <1>4, <2>2, <2>3, <2>5, Zenon DEF e
<1>5. CASE Answer(c, 0)
  <2>1. Counts(c, c) /\ 0 \in Advised
    BY DEF Counts, Advised
  <2> QED BY <1>5, <2>1
<1> QED BY <1>3, <1>4, <1>5 DEF AnswerExtremes

LEMMA AdviceTypesAre ==
    ASSUME AdviceInv
    PROVE  /\ ci \in CiType /\ curbps \in PlayerRates /\ bps \in Rates
           /\ curbps \in Nat /\ bps \in Nat
           /\ ci.large_samples \in 0 .. MaxAdviceSamples /\ ci.large_samples \in Nat
           /\ ci.incReq \in Nat /\ ci.decReq \in Nat /\ ci.bpsSwitched \in Nat
<1>1. ci \in CiType /\ curbps \in PlayerRates
  BY DEF AdviceInv, AdviceTypes
<1>2. bps \in Rates
  BY <1>1, PredictedRate
<1>3. Rates \subseteq Nat /\ PlayerRates \subseteq Nat /\ Reported \subseteq Nat
  BY SortedRates, RatesAssumption DEF Reported
<1>4. /\ ci.large_samples \in 0 .. MaxAdviceSamples
      /\ ci.incReq \in 0 .. MaxAdviceSamples
      /\ ci.decReq \in 0 .. MaxAdviceSamples
      /\ ci.bpsSwitched \in Reported
  BY <1>1 DEF CiType
<1>5. \A n \in 0 .. MaxAdviceSamples : n \in Nat
  BY AdviceAssumption
<1>6. curbps \in Nat /\ bps \in Nat /\ ci.bpsSwitched \in Nat
  BY <1>1, <1>2, <1>3, <1>4
<1> QED BY <1>1, <1>2, <1>4, <1>5, <1>6

\* Passing a media level over changes nothing but the count of refusals.
LEMMA LevelsAre ==
    ASSUME NEW c \in CiType, NEW level \in MediaLevels(c)
    PROVE  Counts(c, level.ci)
<1>1. Counts(c, c) /\ Counts(c, [c EXCEPT !.lvl_tried = 0])
  BY AdviceAssumption DEF Counts, CiType
<1>2. ~(c.lvl_tried > MAX_MEDIA_LVL_TRIED) => Counts(c, [c EXCEPT !.lvl_tried = @ + 1])
  <2>1. c.lvl_tried \in 0 .. MAX_MEDIA_LVL_TRIED + 1
    BY DEF CiType
  <2> QED BY <2>1, AdviceAssumption DEF Counts, CiType
<1>3. level.ci \in {c, [c EXCEPT !.lvl_tried = 0]}
      \/ (~(c.lvl_tried > MAX_MEDIA_LVL_TRIED) /\ level.ci = [c EXCEPT !.lvl_tried = @ + 1])
  BY DEF MediaLevels
<1> QED BY <1>1, <1>2, <1>3

\* The record with another count to wait with.
LEMMA WithReq ==
    ASSUME NEW c \in CiType, NEW n \in 0 .. MaxAdviceSamples
    PROVE  /\ [c EXCEPT !.incReq = n] \in CiType
           /\ [c EXCEPT !.decReq = n] \in CiType
           /\ Counts(c, [c EXCEPT !.decReq = n])
  BY DEF CiType, Counts

LEMMA ZeroIsACount == 0 \in 0 .. MaxAdviceSamples
  BY AdviceAssumption

LEMMA LoweredIs ==
    ASSUME AdviceInv
    PROVE  /\ Lowered \in CiType
           /\ Lowered.incReq = 0
           /\ Lowered.large_samples = ci.large_samples
           /\ Lowered.bpsSwitched = ci.bpsSwitched
<1>1. ci \in CiType
  BY DEF AdviceInv, AdviceTypes
<1> QED BY <1>1, ZeroIsACount, WithReq DEF Lowered, CiType

\* The neighbours' extremes are rates of the table.
LEMMA IncTrendIs ==
    ASSUME AdviceInv
    PROVE  IncTrend \in TdType
<1>1. CASE Neighbours
  <2>1. Index - 1 \in 1 .. g_num_bitrates
    BY <1>1, AdviceTypesAre, PredictedRate, LookedIs DEF Neighbours
  <2>2. curbps \in Rates
    BY <1>1, <2>1, SortedRates DEF Neighbours
  <2> QED BY <1>1, <2>2, AdviceTypesAre DEF IncTrend, TdType, RateOrNone
<1>2. CASE ~Neighbours
  BY <1>2, NoNeighbourIs DEF IncTrend
<1> QED BY <1>1, <1>2

LEMMA EstimateKeeps ==
    ASSUME AdviceInv
    PROVE  /\ \A large \in BOOLEAN, rtt \in RttsMs, bwe \in Bwes, net \in Net :
                 EstimateBw(large, rtt, bwe, net) => AdviceInv'
           /\ EstimateUnmeasured => AdviceInv'
           /\ \A rtt \in RttsMs, bwe \in Bwes : InitialProbe(rtt, bwe) => AdviceInv'
<1>1. ASSUME NEW large \in BOOLEAN, NEW rtt \in RttsMs, NEW bwe \in Bwes, NEW net \in Net,
             EstimateBw(large, rtt, bwe, net)
      PROVE  AdviceInv'
  <2>1. /\ ci.large_samples \in Nat /\ ci.incReq \in Nat
        /\ large => ci.large_samples + 1 \in 0 .. MaxAdviceSamples
    BY <1>1, AdviceTypesAre, AdviceAssumption DEF EstimateBw
  <2>2. ci' \in CiType
    BY <1>1, <2>1, AdviceTypesAre, AdviceAssumption DEF EstimateBw, CiType
  <2>3. /\ ci'.large_samples \in Nat /\ ci'.large_samples >= ci.large_samples
        /\ ci'.incReq = ci.incReq /\ ci'.bpsSwitched = ci.bpsSwitched
        /\ advice' = 0 /\ UNCHANGED <<curbps, lowSeen>>
    BY <1>1, <2>1, AdviceTypesAre DEF EstimateBw, CiType
  <2> QED BY <2>1, <2>2, <2>3 DEF AdviceInv, AdviceTypes, WaitsInv, Advised
<1>2. ASSUME EstimateUnmeasured
      PROVE  AdviceInv'
  <2>1. /\ ci.large_samples \in Nat /\ ci.incReq \in Nat
        /\ ci.large_samples + 1 \in 0 .. MaxAdviceSamples
    BY <1>2, AdviceTypesAre, AdviceAssumption DEF EstimateUnmeasured
  <2>2. ci' \in CiType
    BY <1>2, <2>1, AdviceTypesAre DEF EstimateUnmeasured, CiType
  <2>3. /\ ci'.large_samples = ci.large_samples + 1
        /\ ci'.incReq = ci.incReq /\ ci'.bpsSwitched = ci.bpsSwitched
        /\ advice' = 0 /\ UNCHANGED <<curbps, lowSeen>>
    BY <1>2, <2>1, AdviceTypesAre DEF EstimateUnmeasured, CiType
  <2> QED BY <2>1, <2>2, <2>3 DEF AdviceInv, AdviceTypes, WaitsInv, Advised
<1>3. ASSUME NEW rtt \in RttsMs, NEW bwe \in Bwes, InitialProbe(rtt, bwe)
      PROVE  AdviceInv'
  <2> DEFINE rate == g_sorted_allowed_bitrates[AllowedIndex(Least(MatchBpsRtt(rtt), bwe))]
  <2>1. rate \in RateOrNone
    <3>1. MatchBpsRtt(rtt) \in Nat /\ bwe \in Nat
      BY AdviceAssumption, Matched
    <3>2. Least(MatchBpsRtt(rtt), bwe) \in Nat
      BY <3>1 DEF Least
    <3> QED BY <3>2, AllowedIndexIs, SortedRates DEF RateOrNone
  <2>2. /\ ci' \in {ci, [ci EXCEPT !.first_Bwe = rate]}
        /\ advice' = 0 /\ UNCHANGED <<curbps, lowSeen>>
    BY <1>3 DEF InitialProbe
  <2> HIDE DEF rate
  <2>3. ci' \in CiType
    BY <2>1, <2>2, AdviceTypesAre DEF CiType
  <2>4. /\ ci'.large_samples = ci.large_samples
        /\ ci'.incReq = ci.incReq /\ ci'.bpsSwitched = ci.bpsSwitched
    BY <2>2, AdviceTypesAre DEF CiType
  <2> QED BY <2>2, <2>3, <2>4 DEF AdviceInv, AdviceTypes, WaitsInv, Advised
<1> QED BY <1>1, <1>2, <1>3

LEMMA UpdateSwitchedKeeps ==
    ASSUME AdviceInv, NEW rate \in PlayerRates, UpdateSwitched(rate)
    PROVE  AdviceInv'
<1> DEFINE c == IF ci.trending THEN ci ELSE NewTrend(ci)
<1>1. Counts(ci, c)
  BY AdviceTypesAre, NewTrendIs DEF Counts
<1>2. rate \in Nat /\ rate /= 0
  BY RatesAssumption
<1>3. /\ c.LowToHigh + 1 \in Nat /\ c.HighToLow + 1 \in Nat
      /\ c.trendMinBps \in Reported /\ c.trendMaxBps \in Reported
      /\ c.trendMinBps \in Nat /\ c.trendMaxBps \in Nat
  <2>1. c \in CiType
    BY <1>1 DEF Counts
  <2>2. /\ c.LowToHigh + 1 \in Nat /\ c.HighToLow + 1 \in Nat
        /\ c.trendMinBps \in Reported /\ c.trendMaxBps \in Reported
    <3> HIDE DEF c
    <3> QED BY <2>1 DEF CiType
  <2>3. Reported \subseteq Nat
    BY RatesAssumption DEF Reported
  <2> QED BY <2>2, <2>3
<1> DEFINE lth == Min({c.LowToHigh + 1, MaxSwitches})
           htl == Min({c.HighToLow + 1, MaxSwitches})
           tmax == Max({c.trendMaxBps, rate})
           tmin == IF c.trendMinBps = 0 THEN rate ELSE Min({c.trendMinBps, rate})
<1>4. /\ lth \in Nat /\ htl \in Nat /\ tmax \in Reported /\ tmin \in Reported
  <2>1. lth \in Nat
    BY <1>3, MinOfTwo, AdviceAssumption
  <2>2. htl \in Nat
    BY <1>3, MinOfTwo, AdviceAssumption
  <2>3. tmax \in {c.trendMaxBps, rate}
    BY <1>2, <1>3, MaxOfTwo
  <2>4. tmin \in {c.trendMinBps, rate}
    BY <1>2, <1>3, MinOfTwo
  <2> QED BY <1>2, <1>3, <2>1, <2>2, <2>3, <2>4 DEF Reported
<1>5. /\ \/ ci' = [c EXCEPT !.LowToHigh = lth, !.trendMaxBps = tmax,
                            !.curTrend = "LOW_TO_HIGH", !.bpsSwitched = rate]
         \/ ci' = [c EXCEPT !.HighToLow = htl, !.trendMinBps = tmin,
                            !.curTrend = "HIGH_TO_LOW", !.bpsSwitched = rate]
      /\ curbps' = curbps /\ advice' = 0 /\ lowSeen' = lowSeen
  BY DEF UpdateSwitched
<1>6. c \in CiType /\ c.large_samples = ci.large_samples /\ c.incReq = ci.incReq
  BY <1>1 DEF Counts
<1> HIDE DEF c, lth, htl, tmax, tmin
<1>7. /\ ci' \in CiType /\ ci'.bpsSwitched = rate
      /\ ci'.large_samples = c.large_samples /\ ci'.incReq = c.incReq
  <2>1. rate \in Reported
    BY <1>2 DEF Reported
  <2>2. CASE ci' = [c EXCEPT !.LowToHigh = lth, !.trendMaxBps = tmax,
                             !.curTrend = "LOW_TO_HIGH", !.bpsSwitched = rate]
    BY <1>4, <1>6, <2>1, <2>2 DEF CiType
  <2>3. CASE ci' = [c EXCEPT !.HighToLow = htl, !.trendMinBps = tmin,
                             !.curTrend = "HIGH_TO_LOW", !.bpsSwitched = rate]
    BY <1>4, <1>6, <2>1, <2>3 DEF CiType
  <2> QED BY <1>5, <2>2, <2>3
<1> QED BY <1>2, <1>5, <1>6, <1>7
        DEF AdviceInv, AdviceTypes, WaitsInv, Advised, Reported

\* What an answer may be while the connection is congested.
Small(rate) ==
    rate > curbps /\ curbps = ci.bpsSwitched /\ curbps \in Rates /\ ci.net /= "clear" =>
        rate <= HS_MEDIA_OK_RATE

AnswersWell == \E d, rate : Answer(d, rate) /\ Answers(d, rate) /\ Small(rate)

\* Nothing is answered.
LEMMA AnswerNone ==
    ASSUME AdviceInv, NEW d, Answer(d, 0), Answers(d, 0)
    PROVE  AnswersWell
<1>1. Small(0)
  BY AdviceTypesAre DEF Small
<1> QED BY <1>1 DEF AnswersWell

LEMMA AdviseSameIs == AdviceInv /\ AdviseSame => AnswersWell
<1> SUFFICES ASSUME AdviceInv, AdviseSame PROVE AnswersWell
  OBVIOUS
<1>1. Answers(ci, 0)
  BY AdviceTypesAre DEF Answers, Advised, AdviseSame
<1> QED BY <1>1, AnswerNone DEF AdviseSame

LEMMA AdviseInitialIs == AdviceInv /\ AdviseInitial => AnswersWell
<1> SUFFICES ASSUME AdviceInv, AdviseInitial PROVE AnswersWell
  OBVIOUS
<1>1. ci.bpsSwitched = 0 /\ ci.incReq = 0 /\ \A rate : Small(rate)
  BY AdviceTypesAre, RatesAssumption DEF AdviceInv, WaitsInv, AdviseInitial, Small
<1>2. bps \in Advised /\ 0 \in Advised /\ Counts(ci, ci)
  BY AdviceTypesAre DEF Advised, Counts
<1>3. \E d, rate : Answer(d, rate) /\ Counts(ci, d) /\ rate \in Advised
  BY <1>2, LevelsAre, AdviceTypesAre, Zenon DEF AdviseInitial
<1> QED BY <1>1, <1>3 DEF AnswersWell, Answers, Counts

LEMMA AdviseDownNotedIs == AdviceInv /\ AdviseDownNoted => AnswersWell
<1> SUFFICES ASSUME AdviceInv, AdviseDownNoted PROVE AnswersWell
  OBVIOUS
<1> DEFINE d == [Lowered EXCEPT !.decReq = ci.large_samples]
<1>1. Counts(Lowered, d)
  BY LoweredIs, WithReq, AdviceTypesAre
<1>2. Answers(d, 0)
  <2> HIDE DEF d
  <2> QED BY <1>1, LoweredIs DEF Answers, Counts, Advised
<1> QED BY <1>2, AnswerNone DEF AdviseDownNoted

\* A lower rate is called for: the trend settles on no higher one.
LEMMA DownIsNotUp ==
    ASSUME AdviceInv, bps < curbps, curbps \in Rates, NEW rate \in {0, g_optBps, bps}
    PROVE  ~(rate > curbps)
<1>1. g_optBps <= curbps /\ g_optBps \in Nat
  BY AdviceTypesAre, OptIsNext
<1> QED BY <1>1, AdviceTypesAre

LEMMA AdviseDownIs == AdviceInv /\ AdviseDown => AnswersWell
<1> SUFFICES ASSUME AdviceInv, AdviseDown PROVE AnswersWell
  OBVIOUS
<1> DEFINE c == [Lowered EXCEPT !.decReq = 0]
<1>1. Counts(Lowered, c)
  BY LoweredIs, WithReq, ZeroIsACount
<1>2. PICK d, rate : Answer(d, rate) /\ Counts(c, d) /\ rate \in RateOrNone
                     /\ rate \in {0, g_optBps, bps}
  BY <1>1, AnswerTrendIs, NoNeighbourIs DEF AdviseDown, Counts
<1>3. Answers(d, rate)
  <2> HIDE DEF c
  <2> QED BY <1>1, <1>2, LoweredIs DEF Answers, Counts, RateOrNone, Advised
<1>4. Small(rate)
  BY <1>2, DownIsNotUp DEF Small, AdviseDown
<1> QED BY <1>2, <1>3, <1>4 DEF AnswersWell

LEMMA AdviseDownElseIs == AdviceInv /\ AdviseDownElse => AnswersWell
<1> SUFFICES ASSUME AdviceInv, AdviseDownElse PROVE AnswersWell
  OBVIOUS
<1>0. bps < curbps /\ ci.bpsSwitched /= 0 /\ AnswerExtremes(Lowered, NoNeighbour)
  BY DEF AdviseDownElse, Switched
<1>1. PICK d, rate :
         /\ Answer(d, rate) /\ rate \in Advised
         /\ \/ Counts(Lowered, d)
            \/ Counts([Lowered EXCEPT !.incReq = 0], d)
         /\ \/ rate = 0
            \/ rate \in {0, g_optBps, bps}
            \/ /\ Lowered.bpsSwitched <= HS_MEDIA_POOR_RATE
               /\ bps >= HS_MEDIA_REASONABLE_RATE
  BY <1>0, LoweredIs, AnswerExtremesIs, NoNeighbourIs, Zenon
<1>2. [Lowered EXCEPT !.incReq = 0] = Lowered
  BY LoweredIs DEF CiType
<1>3. Answers(d, rate)
  BY <1>1, <1>2, LoweredIs DEF Answers, Counts
<1>4. Small(rate)
  <2> SUFFICES ASSUME curbps = ci.bpsSwitched, curbps \in Rates PROVE ~(rate > curbps)
    BY DEF Small
  <2>1. ~(Lowered.bpsSwitched <= HS_MEDIA_POOR_RATE /\ bps >= HS_MEDIA_REASONABLE_RATE)
    BY <1>0, LoweredIs, AdviceTypesAre DEF HS_MEDIA_POOR_RATE, HS_MEDIA_REASONABLE_RATE
  <2> QED BY <1>0, <1>1, <2>1, DownIsNotUp, AdviceTypesAre
<1> QED BY <1>1, <1>3, <1>4 DEF AnswersWell

\* The record with which a higher rate is considered.
LEMMA UpLevels ==
    ASSUME AdviceInv, NEW level \in MediaLevels([ci EXCEPT !.decReq = 0])
    PROVE  Counts(ci, level.ci)
<1>1. Counts(ci, [ci EXCEPT !.decReq = 0])
  BY WithReq, AdviceTypesAre, ZeroIsACount
<1>2. Counts([ci EXCEPT !.decReq = 0], level.ci)
  BY <1>1, LevelsAre DEF Counts
<1> QED BY <1>1, <1>2 DEF Counts

LEMMA AdviseUpRefusedIs == AdviceInv /\ AdviseUpRefused => AnswersWell
<1> SUFFICES ASSUME AdviceInv, AdviseUpRefused PROVE AnswersWell
  OBVIOUS
<1>1. PICK level \in MediaLevels([ci EXCEPT !.decReq = 0]) : Answer(level.ci, 0)
  BY DEF AdviseUpRefused
<1>2. Answers(level.ci, 0)
  BY <1>1, UpLevels, AdviceTypesAre DEF Answers, Counts, Advised, AdviseUpRefused
<1> QED BY <1>1, <1>2, AnswerNone

LEMMA AdviseUpNotedIs == AdviceInv /\ AdviseUpNoted => AnswersWell
<1> SUFFICES ASSUME AdviceInv, AdviseUpNoted PROVE AnswersWell
  OBVIOUS
<1>1. PICK level \in MediaLevels([ci EXCEPT !.decReq = 0]) :
         Answer([level.ci EXCEPT !.incReq = ci.large_samples], 0)
  BY DEF AdviseUpNoted
<1> DEFINE d == [level.ci EXCEPT !.incReq = ci.large_samples]
<1>2. Counts(ci, level.ci)
  BY UpLevels
<1>3. d \in CiType
  BY <1>2, WithReq, AdviceTypesAre DEF Counts
<1>4. /\ d.large_samples = ci.large_samples /\ d.bpsSwitched = ci.bpsSwitched
      /\ d.incReq = ci.large_samples
  BY <1>2 DEF Counts, CiType
<1>5. Answers(d, 0)
  <2> HIDE DEF d
  <2> QED BY <1>3, <1>4, AdviceTypesAre DEF Answers, Advised, AdviseUpNoted, Switched
<1> QED BY <1>1, <1>5, AnswerNone

LEMMA AdviseUpIs == AdviceInv /\ AdviseUp => AnswersWell
<1> SUFFICES ASSUME AdviceInv, AdviseUp PROVE AnswersWell
  OBVIOUS
<1>1. PICK level \in MediaLevels([ci EXCEPT !.decReq = 0]) :
         AnswerTrend([level.ci EXCEPT !.incReq = 0], IncTrend)
  BY DEF AdviseUp
<1> DEFINE c == [level.ci EXCEPT !.incReq = 0]
<1>2. Counts(ci, level.ci)
  BY UpLevels
<1>3. c \in CiType
  BY <1>2, WithReq, ZeroIsACount DEF Counts
<1>4. /\ c.large_samples = ci.large_samples /\ c.bpsSwitched = ci.bpsSwitched
      /\ c.incReq = 0
  BY <1>2 DEF Counts, CiType
<1> HIDE DEF c
<1>5. PICK d, rate : Answer(d, rate) /\ Counts(c, d) /\ rate \in RateOrNone
  BY <1>1, <1>3, AnswerTrendIs, IncTrendIs DEF c
<1>6. Answers(d, rate)
  BY <1>4, <1>5 DEF Answers, Counts, RateOrNone, Advised
<1>7. Small(rate)
  BY DEF Small, AdviseUp
<1> QED BY <1>5, <1>6, <1>7 DEF AnswersWell

LEMMA AdviseUpElseIs == AdviceInv /\ AdviseUpElse => AnswersWell
<1> SUFFICES ASSUME AdviceInv, AdviseUpElse PROVE AnswersWell
  OBVIOUS
<1> DEFINE td == IF ci.net = "clear" THEN IncTrend ELSE NoNeighbour
<1>1. PICK level \in MediaLevels([ci EXCEPT !.decReq = 0]) :
         AnswerExtremes(level.ci, td)
  BY DEF AdviseUpElse
<1> DEFINE c == level.ci
<1>2. Counts(ci, c)
  BY UpLevels
<1>3. td \in TdType
  BY IncTrendIs, NoNeighbourIs
<1>4. bps > curbps /\ ci.bpsSwitched /= 0 
  BY DEF AdviseUpElse, Switched
<1> HIDE DEF c, td
<1>5. PICK d, rate :
         /\ Answer(d, rate) /\ rate \in Advised
         /\ \/ Counts(c, d)
            \/ Counts([c EXCEPT !.incReq = 0], d)
         /\ \/ rate = 0
            \/ /\ bps <= HS_MEDIA_POOR_RATE
               /\ c.bpsSwitched >= HS_MEDIA_REASONABLE_RATE
            \/ /\ c.bpsSwitched <= HS_MEDIA_POOR_RATE
               /\ curbps <= HS_MEDIA_POOR_RATE => rate <= HS_MEDIA_OK_RATE
  <2>1. c \in CiType /\ AnswerExtremes(c, td)
    BY <1>1, <1>2 DEF Counts, c
  <2> QED BY <1>3, <2>1, AnswerExtremesIs, Zenon
<1>6. Answers(d, rate)
  <2>1. [c EXCEPT !.incReq = 0].large_samples = c.large_samples
        /\ [c EXCEPT !.incReq = 0].bpsSwitched = c.bpsSwitched
        /\ [c EXCEPT !.incReq = 0].incReq = 0
    BY <1>2 DEF Counts, CiType
  <2> QED BY <1>2, <1>4, <1>5, <2>1, AdviceTypesAre DEF Answers, Counts
<1>7. Small(rate)
  <2> SUFFICES ASSUME curbps = ci.bpsSwitched, rate > curbps
               PROVE  rate <= HS_MEDIA_OK_RATE
    BY DEF Small
  <2>1. c.bpsSwitched = curbps
    BY <1>2 DEF Counts
  <2>2. ~(bps <= HS_MEDIA_POOR_RATE /\ c.bpsSwitched >= HS_MEDIA_REASONABLE_RATE)
    BY <1>4, <2>1, AdviceTypesAre DEF HS_MEDIA_POOR_RATE, HS_MEDIA_REASONABLE_RATE
  <2> QED BY <1>5, <2>1, <2>2, AdviceTypesAre
<1> QED BY <1>5, <1>6, <1>7 DEF AnswersWell

LEMMA AdviseNothingKeeps == AdviceInv /\ AdviseNothing => AdviceInv'
  BY DEF AdviseNothing, AdviceInv, AdviceTypes, WaitsInv, Advised

LEMMA AdviceInvNext ==
    AdviceInv /\ [AdviceNext]_adviceVars => AdviceInv'
<1> SUFFICES ASSUME AdviceInv, [AdviceNext]_adviceVars PROVE AdviceInv'
  OBVIOUS
<1>1. CASE UNCHANGED adviceVars
  BY <1>1 DEF adviceVars, AdviceInv, AdviceTypes, WaitsInv
<1>2. CASE Advise /\ ~AdviseNothing
  <2>1. AnswersWell
    BY <1>2, AdviseSameIs, AdviseInitialIs, AdviseDownNotedIs, AdviseDownIs,
       AdviseDownElseIs, AdviseUpRefusedIs, AdviseUpNotedIs, AdviseUpIs, AdviseUpElseIs
       DEF Advise
  <2> QED BY <2>1, AnswerKeeps DEF AnswersWell
<1>3. ASSUME NEW rate \in PlayerRates, UpdateSwitched(rate) PROVE AdviceInv'
  BY <1>3, UpdateSwitchedKeeps
<1>4. ASSUME NEW rate \in PlayerRates, PlayerChanges(rate) PROVE AdviceInv'
  BY <1>4 DEF PlayerChanges, AdviceInv, AdviceTypes, WaitsInv, Advised
<1> QED BY <1>1, <1>2, <1>3, <1>4, EstimateKeeps, AdviseNothingKeeps DEF AdviceNext

\* The counters of the rate advice stay in range, and what is advised is a rate of
\* the table or the OK rate, whatever hls_init is given and whatever rates the player
\* uses and reports (hls_get_predicted_bps_advice).
THEOREM AdviceIsTyped == AdviceSpec => []AdviceTypeOK
<1>1. AdviceInv => AdviceTypeOK
  BY DEF AdviceInv, AdviceTypes, AdviceTypeOK, CiType, RateOrNone,
         Reported, Advised
<1> QED BY <1>1, AdviceInvInit, AdviceInvNext, PTL DEF AdviceSpec

\* The rules that wait advise to go up only after MIN_LARGE_INC_SAMPLES samples since
\* the last call that saw a lower rate (hls_get_predicted_bps_advice).
THEOREM SwingsUpArePatient == AdviceSpec => NoQuickSwingUp
<1>1. AdviceInv /\ [AdviceNext]_adviceVars =>
        [AdviseUp /\ advice' > curbps =>
           ci.large_samples - lowSeen >= MIN_LARGE_INC_SAMPLES]_adviceVars
  <2> SUFFICES ASSUME AdviceInv, AdviseUp
               PROVE  ci.large_samples - lowSeen >= MIN_LARGE_INC_SAMPLES
    OBVIOUS
  <2>1. ci.incReq /= 0 /\ ci.large_samples - ci.incReq >= IncSwing
    BY DEF AdviseUp
  <2>2. IncSwing \in Nat /\ IncSwing >= MIN_LARGE_INC_SAMPLES
    BY AdviceAssumption DEF IncSwing
  <2>3. lowSeen \in Int /\ lowSeen <= ci.incReq
    BY <2>1 DEF AdviceInv, AdviceTypes, WaitsInv
  <2> QED BY <2>1, <2>2, <2>3, AdviceTypesAre, AdviceAssumption
<1> QED BY <1>1, AdviceInvInit, AdviceInvNext, PTL DEF AdviceSpec, NoQuickSwingUp

\* While the connection shows any congestion, advice to go up ends at the OK rate,
\* for a player that has the rate it has reported, one of the table
\* (hls_get_predicted_bps_advice).
THEOREM CongestionLimitsSwings == AdviceSpec => CongestedUpIsSmall
<1>1. AdviceInv /\ [AdviceNext]_adviceVars =>
        [advice' > curbps /\ curbps = ci.bpsSwitched /\ curbps \in Rates
         /\ ci.net /= "clear" =>
            advice' <= HS_MEDIA_OK_RATE]_adviceVars
  <2> SUFFICES ASSUME AdviceInv, AdviceNext,
                      advice' > curbps, curbps = ci.bpsSwitched, curbps \in Rates,
                      ci.net /= "clear"
               PROVE  advice' <= HS_MEDIA_OK_RATE
    OBVIOUS
  <2>1. CASE Advise /\ ~AdviseNothing
    <3>1. AnswersWell
      BY <2>1, AdviseSameIs, AdviseInitialIs, AdviseDownNotedIs, AdviseDownIs,
         AdviseDownElseIs, AdviseUpRefusedIs, AdviseUpNotedIs, AdviseUpIs, AdviseUpElseIs
         DEF Advise
    <3> QED BY <3>1 DEF AnswersWell, Answer, Small
  <2>2. advice' /= 0
    BY AdviceTypesAre
  <2>3. Advise \/ advice' = 0
    BY DEF AdviceNext, EstimateBw, EstimateUnmeasured, InitialProbe, PlayerChanges,
           UpdateSwitched
  <2>4. AdviseNothing => advice' = 0
    BY DEF AdviseNothing
  <2> QED BY <2>1, <2>2, <2>3, <2>4
<1> QED BY <1>1, AdviceInvInit, AdviceInvNext, PTL DEF AdviceSpec, CongestedUpIsSmall

-----------------------------------------------------------------------------
\* The table, the calls that send and the advice are well formed together: every
\* variable has its type, every record in use has a valid channel, and a channel has
\* one slot (dshlsbw.c).
THEOREM BandwidthIsWellFormed == BandwidthSpec => []HlsWellFormed
<1>1. HlsInv /\ BoundsInv => SlotsTypeOK
  <2> SUFFICES ASSUME HlsInv, BoundsInv PROVE SlotsTypeOK
    OBVIOUS
  <2>1. ASSUME NEW s \in Slots
        PROVE  /\ cls[s].key \in {0} \cup {ch \in Channels : ch > 0 /\ ch < MAX_CHANNEL_ID}
               /\ cls[s].tsaccess \in 0 .. tnow
               /\ cls[s].large_samples \in 0 .. MaxSamples
               /\ cls[s].est \in Channels \cup {0}
               /\ cls[s].key /= 0 => cls[s].tsaccess > 0
    <3>1. RecordOK(cls[s]) /\ cls[s] \in SlotType /\ cls[s].tsaccess <= tnow /\ tnow \in Nat
      BY DEF BoundsInv, HlsInv, HlsTypes
    <3> QED BY <3>1, SlotsAssumption DEF RecordOK, SlotType, Valid
  <2>2. tnow \in 0 .. MaxTime /\ deletes \in BOOLEAN /\ overlap \in BOOLEAN
    BY SlotsAssumption DEF BoundsInv, HlsInv, HlsTypes
  <2> QED BY <2>1, <2>2 DEF SlotsTypeOK
<1>2. HlsInv => CallsTypeOK
  <2> SUFFICES ASSUME HlsInv PROVE CallsTypeOK
    OBVIOUS
  <2>1. \A t \in Senders : sender[t] \in CallType /\ sender[t].rest <= sender[t].txbytes
          /\ (sender[t].pc \in {"found", "asleep"} => sender[t].slot \in Slots)
    BY DEF HlsInv, HlsTypes
  <2> QED BY <2>1 DEF CallType, CallsTypeOK, HlsInv, HlsTypes
<1>3. HlsInv => OneSlot
  BY DEF HlsInv, TableInv, Apart, OneSlot
<1>4. HlsSpec => [](SlotsTypeOK /\ CallsTypeOK /\ OneSlot)
  BY <1>1, <1>2, <1>3, HlsInvInit, HlsInvNext, BoundsInit, BoundsNext, PTL DEF HlsSpec
<1> QED BY <1>4, AdviceIsTyped, PTL DEF BandwidthSpec, HlsWellFormed
=============================================================================
