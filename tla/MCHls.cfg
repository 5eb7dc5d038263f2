CONSTANTS
    Channels <- MCChannels
    MAX_STREAMS_SLOT <- MCSlot
    MAX_CHANNEL_ID <- MCMaxChannelId
    IDLE_TIME_MS <- MCIdle
    MaxTime <- MCMaxTime
    MaxSamples <- MCMaxSamples
    s1 = s1
    s2 = s2
    Senders <- MCSenders
    SenderChannels <- MCSenderChannels
    ChunkSizes <- MCChunkSizes
    MIN_TX_ESTIMATE_SZ <- MCMinTx
    LargeSize <- MCLargeSize
    MaxSleep <- MCMaxSleep
    allowed_video_bitrates <- MCRates
    NUM_BITRATES <- MCNumBitrates
    RttsMs <- MCRtts
    Bwes <- MCBwes
    PlayerRates <- MCPlayerRates
    FIRST_ADVICE_SAMPLES <- MCFirst
    MIN_LARGE_DEC_SAMPLES <- MCDec
    MIN_LARGE_INC_SAMPLES <- MCInc
    INC_SWING_MORE <- MCMore
    MAX_MEDIA_LVL_TRIED <- MCTried
    TREND_FREQ <- MCFreq
    MaxAdviceSamples <- MCMaxAdviceSamples
    MaxSwitches <- MCMaxSwitches
SYMMETRY MCSymmetry
SPECIFICATION MCSpec
INVARIANTS
    HlsWellFormed
    EstimateIsOwn
    SentInOrder
PROPERTIES
    ActiveKept
    NoQuickSwingUp
    CongestedUpIsSmall
CHECK_DEADLOCK FALSE
