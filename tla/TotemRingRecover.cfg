SPECIFICATION SpecOnRing
CONSTANTS
    N = 3
    window_size = 2
    max_messages = 2
    miss_count_const = 1
    seqno_unchanged_const = 0
    fail_to_recv_const = 2
    cancel_token_hold_on_retransmit = TRUE
    QSize = 4
    RtrMax = 1
    QueueMax = 2
    UintMod = 256
    MaxSeq = 3
    MaxTokenSeq = 7
    MaxMcast = 2
    Sending = {1, 2}
INVARIANTS
    Recoverable
    WindowRespected
CHECK_DEADLOCK FALSE
