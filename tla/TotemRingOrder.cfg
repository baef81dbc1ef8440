SPECIFICATION Spec
CONSTANTS
    N = 2
    window_size = 2
    max_messages = 2
    miss_count_const = 1
    seqno_unchanged_const = 1
    fail_to_recv_const = 1
    cancel_token_hold_on_retransmit = FALSE
    QSize = 4
    RtrMax = 1
    QueueMax = 2
    UintMod = 256
    MaxSeq = 2
    MaxTokenSeq = 5
    MaxMcast = 1
INVARIANTS
    TypeOK
    OrderInv
    AgreedDelivery
    DeliveredOnce
    SingleToken
CHECK_DEADLOCK FALSE
