------------------------------- MODULE HlsAdvice -------------------------------
(***************************************************************************)
(* The rate adaptation of src/net/dshlsbw.c for one channel: estimates of  *)
(* its bandwidth come in with each chunk sent (hls_estimate_bw), a player  *)
(* asks for advice on the video rate (hls_get_predicted_bps_advice) and    *)
(* reports the rate it has switched to (hls_update_switched).  Which rates *)
(* it uses and reports is its own affair: no call looks at them.           *)
(*                                                                         *)
(* ci is the channel's HlsClientInfo, reduced to what the advice depends   *)
(* on: the round trip time, the least of the three bandwidth estimates,    *)
(* and how congested the connection was when they were taken.  Time is     *)
(* left to chance: whether the trend window is over and whether enough     *)
(* media is buffered is any outcome.                                       *)
(***************************************************************************)
EXTENDS Integers, Sequences, FiniteSetsExt

CONSTANTS allowed_video_bitrates,  \* what hls_init is given, in its one call
          NUM_BITRATES,            \* 16 in the code: how many of them it looks at
          RttsMs,                  \* round trip times that are measured
          Bwes,                    \* bandwidths that are estimated; 0: none
          PlayerRates,             \* rates that a player uses or reports
          FIRST_ADVICE_SAMPLES,    \* 5
          MIN_LARGE_DEC_SAMPLES,   \* 2
          MIN_LARGE_INC_SAMPLES,   \* 8
          INC_SWING_MORE,          \* 4
          MAX_MEDIA_LVL_TRIED,     \* 5
          TREND_FREQ,              \* 3
          MaxAdviceSamples,        \* bound: of large_samples
          MaxSwitches              \* bound: of the four counts of switches

-----------------------------------------------------------------------------
(* copy_cfg_bitrates: of the first NUM_BITRATES rates the positive ones,   *)
(* sorted, equal ones included.  If none is positive the table is cleared, *)
(* and without any rate it stays as it was; either way its length and the  *)
(* rates derived from it are not assigned.                                 *)

Looked == {i \in 1 .. Min({Len(allowed_video_bitrates), NUM_BITRATES}) :
              allowed_video_bitrates[i] > 0}

Positive == {allowed_video_bitrates[i] : i \in Looked}

NotAbove(rate) == {i \in Looked : allowed_video_bitrates[i] <= rate}

\* The table in the source (dshlsbw.c:41-49).
StaticBitrates == <<128000, 256000, 512000, 1024000>>

g_num_bitrates == IF Looked = {} THEN Len(StaticBitrates) ELSE Cardinality(Looked)

AtLeast(k) == {rate \in Positive : Cardinality(NotAbove(rate)) >= k}

\* The k-th is the least rate that k of the positive ones do not exceed.
g_sorted_allowed_bitrates ==
    [k \in 1 .. g_num_bitrates |->
        CASE Looked /= {} -> Min(AtLeast(k))
          [] Looked = {} /\ allowed_video_bitrates = <<>> -> StaticBitrates[k]
          [] OTHER -> 0]

Rates == {g_sorted_allowed_bitrates[k] : k \in 1 .. g_num_bitrates}

Derived(k) == IF Looked = {} THEN 0 ELSE g_sorted_allowed_bitrates[k]

g_minBps == Derived(1)
g_maxBps == Derived(g_num_bitrates)
g_optBps == Derived(IF g_num_bitrates > 1 THEN 2 ELSE 1)

HS_MEDIA_POOR_RATE == 128000
HS_MEDIA_OK_RATE == 256000
HS_MEDIA_REASONABLE_RATE == 512000

ASSUME RatesAssumption ==
    /\ allowed_video_bitrates \in Seq(Int)
    /\ NUM_BITRATES \in Nat /\ NUM_BITRATES >= Len(StaticBitrates)
    /\ PlayerRates \subseteq Nat \ {0}

ASSUME AdviceAssumption ==
    /\ RttsMs \subseteq Nat
    /\ Bwes \subseteq Nat
    /\ FIRST_ADVICE_SAMPLES \in Nat
    /\ MIN_LARGE_DEC_SAMPLES \in Nat
    /\ MIN_LARGE_INC_SAMPLES \in Nat
    /\ INC_SWING_MORE \in Nat
    /\ MAX_MEDIA_LVL_TRIED \in Nat
    /\ TREND_FREQ \in Nat
    /\ MaxAdviceSamples \in Nat
    /\ MaxSwitches \in Nat

VARIABLES
    ci,
    curbps,    \* the rate the player has, and asks with
    advice,    \* what the call has answered, if it was for advice, or 0
    lowSeen    \* history: large_samples when the estimate was last below curbps

adviceVars == <<ci, curbps, advice, lowSeen>>

AdviceInit ==
    /\ ci = [large_samples |-> 0, i_rtt_ms |-> 0, bwe |-> 0, net |-> "clear",
             first_Bwe |-> 0, bpsSwitched |-> 0, incReq |-> 0, decReq |-> 0,
             lvl_tried |-> 0, curTrend |-> "none", trending |-> FALSE,
             LowToHigh |-> 0, HighToLow |-> 0, trendMinBps |-> 0,
             trendMaxBps |-> 0, inOptBpsTrend |-> FALSE,
             sub_LowToHigh |-> 0, sub_HighToLow |-> 0]
    /\ curbps \in PlayerRates
    /\ advice = 0
    /\ lowSeen = -1

-----------------------------------------------------------------------------
(* Helpers                                                                 *)

\* HS_MATCH_BPSRTT
MatchBpsRtt(rtt) ==
    CASE rtt <= 10  -> 2048000
      [] rtt > 10  /\ rtt <= 30  -> 1024000
      [] rtt > 30  /\ rtt <= 50  -> 768000
      [] rtt > 50  /\ rtt <= 70  -> 512000
      [] rtt > 70  /\ rtt <= 120 -> 256000
      [] rtt > 120 /\ rtt <= 320 -> 128000
      [] rtt > 320 -> 96000

\* hs_get_config_allowed_bps with BPS_SAME_OR_LESS: the greatest rate of the table
\* that is not above, else the least one.  Of equal rates the first counts,
\* except at the upper end.
AllowedIndex(bps) ==
    IF bps <= g_sorted_allowed_bitrates[1] THEN 1
    ELSE IF bps >= g_sorted_allowed_bitrates[g_num_bitrates] THEN g_num_bitrates
    ELSE Min({i \in 1 .. g_num_bitrates :
                 /\ g_sorted_allowed_bitrates[i] <= bps
                 /\ bps /= g_sorted_allowed_bitrates[i]
                       => g_sorted_allowed_bitrates[i + 1] > bps})

Least(a, b) == IF b /= 0 /\ b < a THEN b ELSE a

\* The rate that the measurements call for, before it is made an allowed one.
Predicted ==
    LET match == MatchBpsRtt(ci.i_rtt_ms)
    IN  IF ci.bpsSwitched /= 0 THEN Least(match, ci.bwe)
        ELSE IF ci.first_Bwe > 0 /\ ci.first_Bwe < match
               THEN (match + ci.first_Bwe) \div 2
        ELSE match

Index == AllowedIndex(Predicted)

bps == g_sorted_allowed_bitrates[Index]

NewTrend(c) ==
    [c EXCEPT !.trending = TRUE, !.LowToHigh = 0, !.HighToLow = 0,
              !.trendMinBps = 0, !.trendMaxBps = 0, !.inOptBpsTrend = FALSE,
              !.sub_LowToHigh = 0, !.sub_HighToLow = 0]

\* How often the rate the trend goes to was asked for while in the trend; with
\* freq of each they start again.
SubTrend(c, b, freq) ==
    LET up   == CASE b = c.trendMinBps -> Min({c.sub_LowToHigh + 1, MaxSwitches})
                  [] b = c.trendMaxBps /\ b /= c.trendMinBps -> c.sub_LowToHigh
                  [] OTHER -> 0
        down == CASE b = c.trendMinBps -> c.sub_HighToLow
                  [] b = c.trendMaxBps /\ b /= c.trendMinBps -> Min({c.sub_HighToLow + 1, MaxSwitches})
                  [] OTHER -> 0
    IN  IF up >= freq /\ down >= freq
          THEN [c EXCEPT !.sub_LowToHigh = 0, !.sub_HighToLow = 0]
          ELSE [c EXCEPT !.sub_LowToHigh = up, !.sub_HighToLow = down]

\* td: the extremes and the frequency that the neighbour rule asks for, or
\* NoNeighbour for those of the configuration.
NoNeighbour == [min |-> 0, max |-> 0, freq |-> 0]

\* get_trend_bps: the rate to settle on, or 0, and the record it leaves.
Trend(c, b, td, expired) ==
    LET min  == IF td.min = 0 THEN g_minBps ELSE td.min
        opt  == IF td.min = 0 THEN g_optBps ELSE td.min
        max  == IF td.max = 0 THEN g_maxBps ELSE td.max
        freq == IF td.freq = 0 THEN TREND_FREQ ELSE td.freq
    IN  IF ~c.trending \/ expired
          THEN [bps |-> 0, ci |-> NewTrend(c)]
        ELSE IF /\ c.LowToHigh >= freq /\ c.HighToLow >= freq
                /\ c.trendMinBps = min /\ c.trendMaxBps = max
          THEN [bps |-> opt,
                ci  |-> IF c.inOptBpsTrend THEN SubTrend(c, b, freq)
                                           ELSE [c EXCEPT !.inOptBpsTrend = TRUE]]
        ELSE [bps |-> 0, ci |-> c]

\* check_media_lvl, and the count of its refusals: it cannot be evaluated, the
\* level is reached, or it is not; then it is passed over after some refusals.
MediaLevels(c) ==
    {[ok |-> TRUE, ci |-> c],
     [ok |-> TRUE, ci |-> [c EXCEPT !.lvl_tried = 0]],
     IF c.lvl_tried > MAX_MEDIA_LVL_TRIED
       THEN [ok |-> TRUE, ci |-> [c EXCEPT !.lvl_tried = 0]]
       ELSE [ok |-> FALSE, ci |-> [c EXCEPT !.lvl_tried = @ + 1]]}

-----------------------------------------------------------------------------
(* hls_estimate_bw, hls_get_initial_probe_bw, hls_update_switched          *)

\* "bad": bytes unsent or unacknowledged, or more than ten retransmissions;
\* "some": none of that, but a retransmission; "clear": nothing.
Net == {"clear", "some", "bad"}

\* A chunk is measured, and is a large sample or not.
EstimateBw(large, rtt, bwe, net) ==
    /\ large => ci.large_samples < MaxAdviceSamples
    /\ ci' = [ci EXCEPT !.large_samples = IF large THEN @ + 1 ELSE @,
                        !.i_rtt_ms = rtt, !.bwe = bwe, !.net = net]
    /\ advice' = 0
    /\ UNCHANGED <<curbps, lowSeen>>

\* A large chunk is counted, but the kernel tells nothing of its connection.
EstimateUnmeasured ==
    /\ ci.large_samples < MaxAdviceSamples
    /\ ci' = [ci EXCEPT !.large_samples = @ + 1]
    /\ advice' = 0
    /\ UNCHANGED <<curbps, lowSeen>>

\* The probe answers, and remembers, a rate of the table, unless that is 0.
InitialProbe(rtt, bwe) ==
    LET rate == g_sorted_allowed_bitrates[AllowedIndex(Least(MatchBpsRtt(rtt), bwe))]
    IN  /\ ci' = IF rate > 0 THEN [ci EXCEPT !.first_Bwe = rate] ELSE ci
        /\ advice' = 0
        /\ UNCHANGED <<curbps, lowSeen>>

\* The player changes its rate, as it was advised or not.
PlayerChanges(rate) ==
    /\ curbps' = rate
    /\ advice' = 0
    /\ UNCHANGED <<ci, lowSeen>>

\* The player says what rate it has switched to.
UpdateSwitched(bpsSwitched) ==
    /\ LET c == IF ci.trending THEN ci ELSE NewTrend(ci)
       IN  ci' = IF bpsSwitched > c.bpsSwitched
                   THEN [c EXCEPT !.LowToHigh = Min({@ + 1, MaxSwitches}),
                                  !.trendMaxBps = Max({@, bpsSwitched}),
                                  !.curTrend = "LOW_TO_HIGH",
                                  !.bpsSwitched = bpsSwitched]
                   ELSE [c EXCEPT !.HighToLow = Min({@ + 1, MaxSwitches}),
                                  !.trendMinBps = IF @ = 0 THEN bpsSwitched
                                                  ELSE Min({@, bpsSwitched}),
                                  !.curTrend = "HIGH_TO_LOW",
                                  !.bpsSwitched = bpsSwitched]
    /\ advice' = 0
    /\ UNCHANGED <<curbps, lowSeen>>

-----------------------------------------------------------------------------
(* hls_get_predicted_bps_advice: one action for each way through it        *)

\* The record is changed, and the call returns the rate.
Answer(c, rate) ==
    /\ ci' = c
    /\ advice' = rate
    /\ lowSeen' = IF bps < curbps THEN ci.large_samples ELSE lowSeen
    /\ UNCHANGED curbps

\* The predicted rate, unless the trend has another one to settle on.
AnswerTrend(c, td) ==
    \E expired \in BOOLEAN :
        LET trend == Trend(c, bps, td, expired)
        IN  Answer(trend.ci,
                   IF trend.bps = curbps THEN 0
                   ELSE IF trend.bps /= 0 THEN trend.bps ELSE bps)

\* There is not enough to go by.
Informed == ci.large_samples >= FIRST_ADVICE_SAMPLES /\ ci.i_rtt_ms /= 0

AdviseNothing ==
    /\ ~Informed
    /\ advice' = 0
    /\ UNCHANGED <<ci, curbps, lowSeen>>

AdviseSame ==
    /\ Informed
    /\ bps = curbps
    /\ Answer(ci, 0)

\* Before the first switch an estimate is followed at once, upwards once enough
\* media is on its way.
AdviseInitial ==
    /\ Informed
    /\ bps /= curbps
    /\ ci.bpsSwitched = 0
    /\ IF bps > curbps
         THEN \E level \in MediaLevels(ci) :
                 Answer(level.ci, IF level.ok THEN bps ELSE 0)
         ELSE Answer(ci, bps)

\* Mutant of Stepped: no step in between.
SteppedNot(rate) == rate

\* The step rule: not from a poor rate to more than an OK one.
Stepped(rate) ==
    IF rate > HS_MEDIA_OK_RATE /\ curbps <= HS_MEDIA_POOR_RATE
      THEN HS_MEDIA_OK_RATE ELSE rate

\* What the call comes to when neither of the patient rules below has answered:
\* jumps between the extremes are followed at once.
AnswerExtremes(c, td) ==
    \/ /\ bps <= HS_MEDIA_POOR_RATE
       /\ c.bpsSwitched >= HS_MEDIA_REASONABLE_RATE
       /\ AnswerTrend(c, td)
    \/ /\ c.bpsSwitched <= HS_MEDIA_POOR_RATE
       /\ bps >= HS_MEDIA_REASONABLE_RATE
       /\ \E expired \in BOOLEAN :
             LET trend == Trend([c EXCEPT !.incReq = 0], bps, td, expired)
             IN  Answer(trend.ci,
                        IF trend.bps = curbps THEN 0
                        ELSE Stepped(IF trend.bps /= 0 THEN trend.bps ELSE bps))
    \/ /\ ~(bps <= HS_MEDIA_POOR_RATE /\ c.bpsSwitched >= HS_MEDIA_REASONABLE_RATE)
       /\ ~(c.bpsSwitched <= HS_MEDIA_POOR_RATE /\ bps >= HS_MEDIA_REASONABLE_RATE)
       /\ Answer(c, 0)

Switched == Informed /\ ci.bpsSwitched /= 0

\* A switch against the trend between neighbours takes more samples.
DecSwing ==
    IF /\ ci.curTrend = "LOW_TO_HIGH" /\ g_num_bitrates >= 4
       /\ Index < g_num_bitrates
       /\ g_sorted_allowed_bitrates[Index + 1] = curbps
      THEN MIN_LARGE_DEC_SAMPLES + 1 ELSE MIN_LARGE_DEC_SAMPLES

\* Mutant of Lowered: the samples towards a higher rate go on counting.
LoweredKeepsInc == ci

\* A lower rate is called for: the count towards a higher one starts anew.
Lowered == [ci EXCEPT !.incReq = 0]

\* High to low: the first sample is noted.
AdviseDownNoted ==
    /\ Switched /\ bps < curbps
    /\ ci.net = "bad"
    /\ ci.decReq = 0 \/ ci.large_samples < ci.decReq
    /\ Answer([Lowered EXCEPT !.decReq = ci.large_samples], 0)

AdviseDown ==
    /\ Switched /\ bps < curbps
    /\ ci.net = "bad"
    /\ ci.decReq /= 0
    /\ ci.large_samples - ci.decReq >= DecSwing
    /\ AnswerTrend([Lowered EXCEPT !.decReq = 0], NoNeighbour)

AdviseDownElse ==
    /\ Switched /\ bps < curbps
    /\ ci.net = "bad" => /\ ci.decReq /= 0
                         /\ ci.large_samples >= ci.decReq
                         /\ ci.large_samples - ci.decReq < DecSwing
    /\ AnswerExtremes(Lowered, NoNeighbour)

\* Low to high against the trend between neighbours.
Neighbours ==
    /\ ci.curTrend = "HIGH_TO_LOW" /\ g_num_bitrates >= 4
    /\ Index > 1
    /\ g_sorted_allowed_bitrates[Index - 1] = curbps

IncSwing ==
    IF ~Neighbours THEN MIN_LARGE_INC_SAMPLES
    ELSE IF ci.HighToLow > 2 THEN MIN_LARGE_INC_SAMPLES * 4
    ELSE MIN_LARGE_INC_SAMPLES + INC_SWING_MORE

IncTrend ==
    IF Neighbours THEN [min |-> curbps, max |-> bps, freq |-> 1] ELSE NoNeighbour

AdviseUpRefused ==
    /\ Switched /\ bps > curbps
    /\ \E level \in MediaLevels([ci EXCEPT !.decReq = 0]) :
          ~level.ok /\ Answer(level.ci, 0)

AdviseUpNoted ==
    /\ Switched /\ bps > curbps
    /\ ci.net = "clear"
    /\ ci.incReq = 0 \/ ci.large_samples < ci.incReq
    /\ \E level \in MediaLevels([ci EXCEPT !.decReq = 0]) :
          level.ok /\ Answer([level.ci EXCEPT !.incReq = ci.large_samples], 0)

AdviseUp ==
    /\ Switched /\ bps > curbps
    /\ ci.net = "clear"
    /\ ci.incReq /= 0
    /\ ci.large_samples - ci.incReq >= IncSwing
    /\ \E level \in MediaLevels([ci EXCEPT !.decReq = 0]) :
          level.ok /\ AnswerTrend([level.ci EXCEPT !.incReq = 0], IncTrend)

AdviseUpElse ==
    /\ Switched /\ bps > curbps
    /\ ci.net = "clear" => /\ ci.incReq /= 0
                           /\ ci.large_samples >= ci.incReq
                           /\ ci.large_samples - ci.incReq < IncSwing
    /\ \E level \in MediaLevels([ci EXCEPT !.decReq = 0]) :
          level.ok /\ AnswerExtremes(level.ci, IF ci.net = "clear" THEN IncTrend
                                                                ELSE NoNeighbour)

Advise ==
    \/ AdviseNothing
    \/ AdviseSame
    \/ AdviseInitial
    \/ AdviseDownNoted
    \/ AdviseDown
    \/ AdviseDownElse
    \/ AdviseUpRefused
    \/ AdviseUpNoted
    \/ AdviseUp
    \/ AdviseUpElse

AdviceNext ==
    \/ \E large \in BOOLEAN, rtt \in RttsMs, bwe \in Bwes, net \in Net :
          EstimateBw(large, rtt, bwe, net)
    \/ EstimateUnmeasured
    \/ \E rtt \in RttsMs, bwe \in Bwes : InitialProbe(rtt, bwe)
    \/ \E rate \in PlayerRates : PlayerChanges(rate) \/ UpdateSwitched(rate)
    \/ Advise

AdviceSpec == AdviceInit /\ [][AdviceNext]_adviceVars

-----------------------------------------------------------------------------
\* The counters stay in range, and what is advised is a rate of the table, or the
\* OK rate, which the step rule answers whether or not it is in the table.
AdviceTypeOK ==
    /\ ci.large_samples \in 0 .. MaxAdviceSamples
    /\ ci.incReq \in 0 .. MaxAdviceSamples
    /\ ci.decReq \in 0 .. MaxAdviceSamples
    /\ ci.lvl_tried \in 0 .. MAX_MEDIA_LVL_TRIED + 1
    /\ ci.net \in Net
    /\ ci.first_Bwe \in Rates \cup {0}
    /\ ci.bpsSwitched \in PlayerRates \cup {0}
    /\ ci.trendMinBps \in PlayerRates \cup {0}
    /\ ci.trendMaxBps \in PlayerRates \cup {0}
    /\ curbps \in PlayerRates
    /\ advice \in Rates \cup {0, HS_MEDIA_OK_RATE}

\* The rules that wait are patient: an advice to go up by them comes only after
\* MIN_LARGE_INC_SAMPLES samples since the last call that saw a lower rate.
NoQuickSwingUp ==
    [][AdviseUp /\ advice' > curbps =>
          ci.large_samples - lowSeen >= MIN_LARGE_INC_SAMPLES]_adviceVars

\* While the connection shows any congestion an advice to go up goes no further
\* than the OK rate, once the player has reported the rate that it has and if that
\* is a rate of the table.
CongestedUpIsSmall ==
    [][advice' > curbps /\ curbps = ci.bpsSwitched /\ curbps \in Rates
        /\ ci.net /= "clear" =>
          advice' <= HS_MEDIA_OK_RATE]_adviceVars
=============================================================================
