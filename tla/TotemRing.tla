----------------------------- MODULE TotemRing -----------------------------
(***************************************************************************)
(* The operational ring of exec/totemsrp.c: the nodes of one ring pass the *)
(* orf_token around, the holder numbers and multicasts its queued messages *)
(* and the messages the token asks to be sent again, and every node        *)
(* delivers what it received in the order of the sequence numbers.         *)
(*                                                                         *)
(* Nodes are numbered in the order of the ring; node 1 is its              *)
(* representative (my_ring_id.rep).  Address 0 is nobody, as in the code.  *)
(* The network is the set of everything ever sent: a message can be        *)
(* received by any node, any number of times, in any order, or never.  A   *)
(* node that leaves the OPERATIONAL state (token timeout, FAILED TO        *)
(* RECEIVE) is in "GATHER" here for ever; what follows is TotemMemb's.     *)
(***************************************************************************)
EXTENDS Integers, Sequences, FiniteSets

CONSTANTS
    N,                      \* the number of nodes of the ring
    window_size,            \* totem_config: messages in one token rotation
    max_messages,           \* totem_config: messages in one token visit
    miss_count_const,       \* totem_config: visits before a retransmit request
    seqno_unchanged_const,  \* totem_config: idle rotations before a hold
    fail_to_recv_const,     \* totem_config: visits with an unchanged aru
    cancel_token_hold_on_retransmit,    \* totem_config
    QSize,                  \* QUEUE_RTR_ITEMS_SIZE_MAX
    RtrMax,                 \* RETRANSMIT_ENTRIES_MAX
    QueueMax,               \* most messages a new_message_queue holds
    UintMod,                \* 2^(width of an unsigned int)
    MaxSeq,                 \* bound: sequence numbers
    MaxTokenSeq,            \* bound: token_seq, that is token hops
    MaxMcast                \* bound: messages each node's application sends

ASSUME RingAssumption ==
    /\ N \in Nat \ {0}
    /\ window_size \in Nat /\ max_messages \in Nat
    /\ miss_count_const \in Nat /\ fail_to_recv_const \in Nat
    /\ seqno_unchanged_const \in Nat
    /\ cancel_token_hold_on_retransmit \in BOOLEAN
    /\ QSize \in Nat /\ RtrMax \in Nat /\ QueueMax \in Nat
    /\ UintMod \in Nat \ {0}
    /\ MaxSeq \in Nat /\ MaxTokenSeq \in Nat /\ MaxMcast \in Nat

Node == 1..N
Rep == 1
Succ(n) == IF n = N THEN 1 ELSE n + 1
Addr == 0..N                \* a node, or 0 for nobody

Msg == [from : Node, id : 1..MaxMcast]
None == [from |-> 0, id |-> 0]
Seqno == 1..MaxSeq

Mcast == [seq : Seqno, msg : Msg]

Token == [token_seq : Nat, seq : 0..MaxSeq, aru : 0..MaxSeq, aru_addr : Addr,
          fcc : Nat, backlog : Nat, rtr : SUBSET Seqno]

SmallerOf(a, b) == IF a < b THEN a ELSE b
LargerOf(a, b) == IF a < b THEN b ELSE a
UintAdd(a, b) == (a + b) % UintMod

VARIABLES
    memb_state,             \* "OPERATIONAL" or "GATHER"
    waiting_trans_ack,      \* the transitional message queue is in use
    new_message_queue,      \* messages waiting for the token
    new_message_queue_trans,
    mcast_count,            \* messages the application of the node has sent
    regular_sort_queue,     \* by sequence number, None for a free slot
    miss_count,             \* the miss counts of the sort queue
    my_aru,                 \* all received up to
    my_high_seq_received,
    my_high_delivered,
    last_released,          \* the head of the sort queue is last_released + 1
    delivered,              \* what totemsrp_deliver_fn was called with
    my_token_seq,
    my_last_aru,
    my_aru_count,
    my_last_seq,
    my_seq_unchanged,
    my_token_held,
    my_trc,                 \* messages transmitted at the previous visit
    my_pbl,                 \* backlog at the previous visit
    orf_token_retransmit,   \* the node's copy of the token it sent last
    tokens,                 \* <<destination, token>> sent
    mcasts,                 \* multicasts sent
    hold_cancels            \* nodes that sent token_hold_cancel

appVars   == <<waiting_trans_ack, new_message_queue, new_message_queue_trans,
               mcast_count>>
sortVars  == <<regular_sort_queue, miss_count, my_aru, my_high_seq_received,
               my_high_delivered, last_released, delivered>>
visitVars == <<my_token_seq, my_last_aru, my_aru_count, my_trc, my_pbl,
               orf_token_retransmit>>
holdVars  == <<my_last_seq, my_seq_unchanged, my_token_held>>
netVars   == <<tokens, mcasts, hold_cancels>>
vars == <<memb_state, appVars, sortVars, visitVars, holdVars, netVars>>

TypeOK ==
    /\ memb_state \in [Node -> {"OPERATIONAL", "GATHER"}]
    /\ waiting_trans_ack \in [Node -> BOOLEAN]
    /\ new_message_queue \in [Node -> Seq(Msg)]
    /\ new_message_queue_trans \in [Node -> Seq(Msg)]
    /\ mcast_count \in [Node -> 0..MaxMcast]
    /\ regular_sort_queue \in [Node -> [Seqno -> Msg \cup {None}]]
    /\ miss_count \in [Node -> [Seqno -> 0..miss_count_const]]
    /\ my_aru \in [Node -> 0..MaxSeq]
    /\ my_high_seq_received \in [Node -> 0..MaxSeq]
    /\ my_high_delivered \in [Node -> 0..MaxSeq]
    /\ last_released \in [Node -> 0..MaxSeq]
    /\ delivered \in [Node -> Seq(Msg)]
    /\ my_token_seq \in [Node -> Nat]
    /\ my_last_aru \in [Node -> 0..MaxSeq]
    /\ my_aru_count \in [Node -> 0..(fail_to_recv_const + 1)]
    /\ my_last_seq \in [Node -> 0..MaxSeq]
    /\ my_seq_unchanged \in [Node -> 0..(seqno_unchanged_const + 1)]
    /\ my_token_held \in [Node -> BOOLEAN]
    /\ my_trc \in [Node -> Nat]
    /\ my_pbl \in [Node -> Nat]
    /\ orf_token_retransmit \in [Node -> Token]
    /\ tokens \subseteq Node \X Token
    /\ mcasts \subseteq Mcast
    /\ hold_cancels \subseteq Node

(***************************************************************************)
(* Every node is in the OPERATIONAL state, nothing has been multicast on   *)
(* the new ring, and the token, which visited the nodes in order while     *)
(* they recovered, is on its way from node N to node 1.                    *)
(***************************************************************************)
FirstToken(n) ==
    [token_seq |-> n, seq |-> 0, aru |-> 0, aru_addr |-> 0,
     fcc |-> 0, backlog |-> 0, rtr |-> {}]

Init ==
    /\ memb_state = [n \in Node |-> "OPERATIONAL"]
    /\ waiting_trans_ack = [n \in Node |-> TRUE]
    /\ new_message_queue = [n \in Node |-> <<>>]
    /\ new_message_queue_trans = [n \in Node |-> <<>>]
    /\ mcast_count = [n \in Node |-> 0]
    /\ regular_sort_queue = [n \in Node |-> [s \in Seqno |-> None]]
    /\ miss_count = [n \in Node |-> [s \in Seqno |-> 0]]
    /\ my_aru = [n \in Node |-> 0]
    /\ my_high_seq_received = [n \in Node |-> 0]
    /\ my_high_delivered = [n \in Node |-> 0]
    /\ last_released = [n \in Node |-> 0]
    /\ delivered = [n \in Node |-> <<>>]
    /\ my_token_seq = [n \in Node |-> n - 1]
    /\ my_last_aru = [n \in Node |-> 0]
    /\ my_aru_count = [n \in Node |-> 0]
    /\ my_last_seq = [n \in Node |-> 0]
    /\ my_seq_unchanged = [n \in Node |-> 0]
    /\ my_token_held = [n \in Node |-> FALSE]
    /\ my_trc = [n \in Node |-> 0]
    /\ my_pbl = [n \in Node |-> 0]
    /\ orf_token_retransmit = [n \in Node |-> FirstToken(n)]
    /\ tokens = {<<Succ(n), FirstToken(n)>> : n \in Node}
    /\ mcasts = {}
    /\ hold_cancels = {}

----------------------------------------------------------------------------
(***************************************************************************)
(* The application side.                                                   *)
(***************************************************************************)

\* The queue that totemsrp_mcast fills and that the token empties.
QueueInUse(n) ==
    IF waiting_trans_ack[n] THEN new_message_queue_trans[n]
                            ELSE new_message_queue[n]

SetQueueInUse(n, q) ==
    IF waiting_trans_ack[n]
    THEN /\ new_message_queue_trans' = [new_message_queue_trans EXCEPT ![n] = q]
         /\ UNCHANGED new_message_queue
    ELSE /\ new_message_queue' = [new_message_queue EXCEPT ![n] = q]
         /\ UNCHANGED new_message_queue_trans

\* The application queues a message, unless the queue is full.
totemsrp_mcast(n) ==
    /\ mcast_count[n] < MaxMcast
    /\ Len(QueueInUse(n)) < QueueMax
    /\ mcast_count' = [mcast_count EXCEPT ![n] = @ + 1]
    /\ SetQueueInUse(n, Append(QueueInUse(n),
                               [from |-> n, id |-> mcast_count[n] + 1]))
    /\ UNCHANGED <<memb_state, waiting_trans_ack, sortVars, visitVars,
                   holdVars, netVars>>

\* The synchronisation of the services is over.
totemsrp_trans_ack(n) ==
    /\ waiting_trans_ack[n]
    /\ waiting_trans_ack' = [waiting_trans_ack EXCEPT ![n] = FALSE]
    /\ UNCHANGED <<memb_state, new_message_queue, new_message_queue_trans,
                   mcast_count, sortVars, visitVars, holdVars, netVars>>

----------------------------------------------------------------------------
(***************************************************************************)
(* The sort queue, seen through its window of QSize sequence numbers above *)
(* last_released.                                                          *)
(***************************************************************************)

sq_in_range(released, s) == released < s /\ s <= released + QSize

\* a is the end of the gapless run of messages of sq from my_aru on.
update_aru(sq, from, high, a) ==
    /\ a \in from..LargerOf(from, high)
    /\ \A s \in (from + 1)..a : sq[s] # None
    /\ a < high => sq[a + 1] = None

messages_deliver_to_app_OverHoles(sq, released, from, high, d) ==
    /\ d \in from..LargerOf(from, high)
    /\ \A s \in (from + 1)..d : sq_in_range(released, s)
    /\ d < high => ~ sq_in_range(released, d + 1)

\* messages_deliver_to_app stops at d: the next message is missing, beyond
\* the window of the sort queue, or beyond my_high_seq_received.
messages_deliver_to_app(sq, released, from, high, d) ==
    /\ d \in from..LargerOf(from, high)
    /\ \A s \in (from + 1)..d : sq_in_range(released, s) /\ sq[s] # None
    /\ d < high => ~ sq_in_range(released, d + 1) \/ sq[d + 1] = None

Deliver_NotCounted(n, sq, from, d) ==
    /\ delivered' = [delivered EXCEPT
                        ![n] = @ \o [i \in 1..(d - from) |-> sq[from + i]]]
    /\ UNCHANGED my_high_delivered

Deliver(n, sq, from, d) ==
    /\ my_high_delivered' = [my_high_delivered EXCEPT ![n] = d]
    /\ delivered' = [delivered EXCEPT
                        ![n] = @ \o [i \in 1..(d - from) |-> sq[from + i]]]

messages_free_WhenDelivered(n, token_aru) == my_high_delivered[n]

\* The point up to which messages_free releases messages.
messages_free(n, token_aru) ==
    LET release_to == SmallerOf(SmallerOf(token_aru, my_last_aru[n]),
                                my_high_delivered[n])
    IN  LargerOf(release_to, last_released[n])

Released(sq, to) == [s \in Seqno |-> IF s <= to THEN None ELSE sq[s]]

\* A multicast of this ring arrives, for the first time or again.
message_handler_mcast(n, m) ==
    LET fresh == /\ sq_in_range(last_released[n], m.seq)
                 /\ regular_sort_queue[n][m.seq] = None
        sq    == IF fresh
                 THEN [regular_sort_queue[n] EXCEPT ![m.seq] = m.msg]
                 ELSE regular_sort_queue[n]
        high  == IF fresh THEN LargerOf(my_high_seq_received[n], m.seq)
                          ELSE my_high_seq_received[n]
    IN  /\ m \in mcasts
        /\ regular_sort_queue' = [regular_sort_queue EXCEPT ![n] = sq]
        /\ my_high_seq_received' = [my_high_seq_received EXCEPT ![n] = high]
        /\ miss_count' = IF fresh THEN [miss_count EXCEPT ![n][m.seq] = 0]
                                  ELSE miss_count
        /\ \E a \in 0..MaxSeq :
              /\ update_aru(sq, my_aru[n], high, a)
              /\ my_aru' = [my_aru EXCEPT ![n] = a]
        /\ IF memb_state[n] = "OPERATIONAL"
           THEN \E d \in 0..MaxSeq :
                   /\ messages_deliver_to_app(sq, last_released[n],
                                              my_high_delivered[n], high, d)
                   /\ Deliver(n, sq, my_high_delivered[n], d)
           ELSE UNCHANGED <<my_high_delivered, delivered>>
        /\ UNCHANGED <<memb_state, appVars, last_released, visitVars,
                       holdVars, netVars>>

----------------------------------------------------------------------------
(***************************************************************************)
(* The token.                                                              *)
(***************************************************************************)

\* my_token_held: the ring has been idle for seqno_unchanged_const visits.
TokenIsHeld(n, unchanged) ==
    \/ n = Rep /\ unchanged > seqno_unchanged_const
    \/ n # Rep /\ unchanged >= seqno_unchanged_const

fcc_calculate_NoWindow(n, token) ==
    LET total == UintAdd(token.backlog, Len(QueueInUse(n)) - my_pbl[n])
        share == (window_size * my_pbl[n]) \div total
    IN  IF total # 0 /\ share > 0 /\ share < max_messages THEN share
        ELSE max_messages

\* The messages the node may transmit at this visit: max_messages, what is
\* left of the window, and the node's share of it in proportion to its backlog.
fcc_calculate(n, token) ==
    LET room  == SmallerOf(max_messages, UintAdd(window_size, -token.fcc))
        total == UintAdd(token.backlog, Len(QueueInUse(n)) - my_pbl[n])
        share == (window_size * my_pbl[n]) \div total
    IN  IF total # 0 /\ share > 0 /\ share < room THEN share ELSE room

fcc_rtr_limit_None(released, seq, allowed) == allowed

\* Nothing is transmitted that might not fit the sort queues.
fcc_rtr_limit(released, seq, allowed) ==
    IF released + QSize - allowed - window_size < seq THEN 0 ELSE allowed

\* The messages of the token's list that the node sends again: as many of those
\* it has as it may transmit.  The order of the list is abstracted, so which
\* ones is left open.
orf_token_remcast(n, token, sq, resent) ==
    LET have == {s \in token.rtr : sq[s] # None}
    IN  /\ resent \subseteq have
        /\ Cardinality(resent) =
               SmallerOf(fcc_calculate(n, token), Cardinality(have))

\* The messages the node lacks, and those it has lacked long enough to ask for.
Missing(n, token, sq, released) ==
    {s \in (my_aru[n] + 1)..token.seq :
        sq_in_range(released, s) /\ sq[s] = None}

Ripe(n, missing) ==
    {s \in missing : miss_count[n][s] + 1 >= miss_count_const}

\* The missing messages orf_token_rtr examines before the list, which starts
\* with the entries left, is full.
Examined(n, missing, left) ==
    {s \in missing :
        Cardinality(left \cup {r \in Ripe(n, missing) : r < s}) < RtrMax}

\* The token's list after the node took what it sent off and added what it lacks.
orf_token_rtr(n, token, sq, released, resent) ==
    LET left    == token.rtr \ resent
        missing == Missing(n, token, sq, released)
    IN  left \cup (Ripe(n, missing) \cap Examined(n, missing, left))

\* How many of its queued messages the node multicasts, and its sort queue then.
orf_token_mcast(n, token, released, resent) ==
    SmallerOf(fcc_rtr_limit(released, token.seq,
                            fcc_calculate(n, token) - Cardinality(resent)),
              Len(QueueInUse(n)))

WithMcasts(n, token, sq, sent) ==
    [s \in Seqno |-> IF s > token.seq /\ s <= token.seq + sent
                     THEN QueueInUse(n)[s - token.seq] ELSE sq[s]]

\* The aru of the token: lowered by a node that lacks messages, raised again
\* only by the node that lowered it.
TokenAru(n, token, sent, aru) ==
    IF aru < token.aru \/ token.aru_addr = n \/ token.aru_addr = 0
    THEN [aru  |-> aru,
          addr |-> IF aru = token.seq + sent THEN 0 ELSE n]
    ELSE [aru  |-> token.aru, addr |-> token.aru_addr]

\* The token the node passes on (fcc_token_update for fcc and backlog).
NextToken(n, token, rtr, transmitted, sent, aru) ==
    [token_seq |-> token.token_seq + 1,
     seq       |-> token.seq + sent,
     aru       |-> TokenAru(n, token, sent, aru).aru,
     aru_addr  |-> TokenAru(n, token, sent, aru).addr,
     fcc       |-> UintAdd(token.fcc, transmitted - my_trc[n]),
     backlog   |-> UintAdd(token.backlog, Len(QueueInUse(n)) - my_pbl[n]),
     rtr       |-> rtr]

\* my_aru_count, saturated one above fail_to_recv_const.
AruCount(n, group) ==
    IF group.aru = my_last_aru[n] /\ group.addr # 0
    THEN SmallerOf(my_aru_count[n] + 1, fail_to_recv_const + 1)
    ELSE 0

\* The token is passed on, unless the representative holds it, and messages are
\* delivered.
ForwardToken(n, token, next, sq, released, high, held) ==
    /\ my_token_seq' = [my_token_seq EXCEPT ![n] = token.token_seq]
    /\ orf_token_retransmit' = [orf_token_retransmit EXCEPT ![n] = next]
    /\ tokens' = IF n = Rep /\ held THEN tokens
                 ELSE tokens \cup {<<Succ(n), next>>}
    /\ \E d \in 0..MaxSeq :
          /\ messages_deliver_to_app(sq, released, my_high_delivered[n], high, d)
          /\ Deliver(n, sq, my_high_delivered[n], d)
    /\ UNCHANGED memb_state

\* FAILED TO RECEIVE: the node leaves the ring and the token goes no further.
FailToReceive(n) ==
    /\ memb_state' = [memb_state EXCEPT ![n] = "GATHER"]
    /\ UNCHANGED <<my_token_seq, orf_token_retransmit, tokens,
                   my_high_delivered, delivered>>

TokenIsNew_AcceptsEqual(n, token) == token.token_seq >= my_token_seq[n]

\* Not a token the node has seen already, sent again by its predecessor.
TokenIsNew(n, token) == token.token_seq > my_token_seq[n]

\* A token that is new to the node.
AcceptToken(n, token, sq, released, held, resent, sent, aru) ==
    LET left  == token.rtr \ resent
        rtr   == orf_token_rtr(n, token, sq, released, resent)
        sq2   == WithMcasts(n, token, sq, sent)
        high  == IF sent > 0 THEN token.seq + sent ELSE my_high_seq_received[n]
        group == TokenAru(n, token, sent, aru)
        count == AruCount(n, group)
        stillHeld == /\ held
                     /\ \/ ~ cancel_token_hold_on_retransmit
                        \/ rtr = {} /\ resent = {}
        transmitted == Cardinality(resent) + sent
        examined == Examined(n, Missing(n, token, sq, released), left)
    IN  /\ TokenIsNew(n, token)
        /\ token.token_seq < MaxTokenSeq /\ token.seq + sent <= MaxSeq
        /\ orf_token_remcast(n, token, sq, resent)
        /\ sent = orf_token_mcast(n, token, released, resent)
        /\ update_aru(sq2, my_aru[n], high, aru)
        /\ SetQueueInUse(n, SubSeq(QueueInUse(n), sent + 1, Len(QueueInUse(n))))
        /\ mcasts' = mcasts \cup
              {[seq |-> s, msg |-> sq2[s]] :
                  s \in resent \cup (token.seq + 1)..(token.seq + sent)}
        /\ miss_count' = [miss_count EXCEPT ![n] = [s \in Seqno |->
              IF s \in examined THEN SmallerOf(@[s] + 1, miss_count_const)
              ELSE IF s > token.seq /\ s <= token.seq + sent THEN 0
              ELSE @[s]]]
        /\ regular_sort_queue' = [regular_sort_queue EXCEPT ![n] = sq2]
        /\ my_high_seq_received' = [my_high_seq_received EXCEPT ![n] = high]
        /\ my_aru' = [my_aru EXCEPT ![n] = aru]
        /\ my_last_aru' = [my_last_aru EXCEPT ![n] = token.aru]
        /\ my_aru_count' = [my_aru_count EXCEPT ![n] = count]
        /\ my_token_held' = [my_token_held EXCEPT ![n] = stillHeld]
        /\ my_trc' = [my_trc EXCEPT ![n] = transmitted]
        /\ my_pbl' = [my_pbl EXCEPT ![n] = Len(QueueInUse(n))]
        /\ IF count > fail_to_recv_const /\ group.addr = n
           THEN FailToReceive(n)
           ELSE ForwardToken(n, token,
                             NextToken(n, token, rtr, transmitted, sent, aru),
                             sq2, released, high, stillHeld)
        /\ UNCHANGED <<waiting_trans_ack, mcast_count, hold_cancels>>

DiscardToken(n, token, sq, held) ==
    /\ ~ TokenIsNew(n, token)
    /\ my_token_held' = [my_token_held EXCEPT ![n] = held]
    /\ regular_sort_queue' = [regular_sort_queue EXCEPT ![n] = sq]
    /\ UNCHANGED <<memb_state, appVars, miss_count, my_aru,
                   my_high_seq_received, my_high_delivered, delivered,
                   visitVars, netVars>>

\* A token arrives.  It frees messages before it is known to be new.
message_handler_orf_token(n, token) ==
    LET unchanged == IF token.seq = my_last_seq[n]
                     THEN SmallerOf(my_seq_unchanged[n] + 1,
                                    seqno_unchanged_const + 1)
                     ELSE 0
        held      == TokenIsHeld(n, unchanged)
        released  == messages_free(n, token.aru)
        sq        == Released(regular_sort_queue[n], released)
    IN  /\ memb_state[n] = "OPERATIONAL"    \* otherwise orf_token_discard
        /\ my_last_seq' = [my_last_seq EXCEPT ![n] = token.seq]
        /\ my_seq_unchanged' = [my_seq_unchanged EXCEPT ![n] = unchanged]
        /\ last_released' = [last_released EXCEPT ![n] = released]
        /\ \/ DiscardToken(n, token, sq, held)
           \/ \E resent \in SUBSET token.rtr, aru \in 0..MaxSeq,
                 sent \in 0..Len(QueueInUse(n)) :
                 AcceptToken(n, token, sq, released, held, resent, sent, aru)

\* The token retransmit and token hold retransmit timers; the second is how a
\* representative that holds the token keeps it alive.
token_retransmit(n) ==
    /\ memb_state[n] = "OPERATIONAL"
    /\ tokens' = tokens \cup {<<Succ(n), orf_token_retransmit[n]>>}
    /\ UNCHANGED <<memb_state, appVars, sortVars, visitVars, holdVars, mcasts,
                   hold_cancels>>

\* Something is to be done at the next token: ask for a held token.
token_hold_cancel_send(n) ==
    /\ my_token_held[n]
    /\ my_token_held' = [my_token_held EXCEPT ![n] = FALSE]
    /\ hold_cancels' = hold_cancels \cup {n}
    /\ UNCHANGED <<memb_state, appVars, sortVars, visitVars, my_last_seq,
                   my_seq_unchanged, tokens, mcasts>>

message_handler_token_hold_cancel(n) ==
    /\ hold_cancels # {}
    /\ my_seq_unchanged' = [my_seq_unchanged EXCEPT ![n] = 0]
    /\ tokens' = IF n = Rep /\ memb_state[n] = "OPERATIONAL"
                 THEN tokens \cup {<<Succ(n), orf_token_retransmit[n]>>}
                 ELSE tokens
    /\ UNCHANGED <<memb_state, appVars, sortVars, visitVars, my_last_seq,
                   my_token_held, mcasts, hold_cancels>>

\* The token did not come in time, or a foreign message did: the node leaves
\* the ring for the membership protocol.
memb_state_gather_enter(n) ==
    /\ memb_state[n] = "OPERATIONAL"
    /\ memb_state' = [memb_state EXCEPT ![n] = "GATHER"]
    /\ UNCHANGED <<appVars, sortVars, visitVars, holdVars, netVars>>

Next ==
    \E n \in Node :
        \/ totemsrp_mcast(n)
        \/ totemsrp_trans_ack(n)
        \/ \E m \in mcasts : message_handler_mcast(n, m)
        \/ \E t \in tokens : t[1] = n /\ message_handler_orf_token(n, t[2])
        \/ token_retransmit(n)
        \/ token_hold_cancel_send(n)
        \/ message_handler_token_hold_cancel(n)
        \/ memb_state_gather_enter(n)

Spec == Init /\ [][Next]_vars

----------------------------------------------------------------------------
(***************************************************************************)
(* Properties.                                                             *)
(***************************************************************************)

\* Agreed delivery: any two nodes deliver the same messages in the same order,
\* one possibly further than the other (messages_deliver_to_app), whatever the
\* network loses, repeats or delays.
AgreedDelivery ==
    \A m, n \in Node :
        \A i \in DOMAIN delivered[m] \cap DOMAIN delivered[n] :
            delivered[m][i] = delivered[n][i]

\* No message is delivered twice, and none that its sender has not queued,
\* although messages and tokens are retransmitted.
DeliveredOnce ==
    \A n \in Node :
        \A i, j \in DOMAIN delivered[n] :
            /\ delivered[n][i].id <= mcast_count[delivered[n][i].from]
            /\ delivered[n][i] = delivered[n][j] => i = j

\* The tokens some node would accept, in flight or held by the representative.
Acceptable ==
    {t \in tokens \cup {<<Succ(n), orf_token_retransmit[n]>> : n \in Node} :
        /\ memb_state[t[1]] = "OPERATIONAL"
        /\ t[2].token_seq > my_token_seq[t[1]]}

\* Retransmission of the token never puts a second token on the ring: at any
\* time at most one token, for at most one node, passes the test of
\* message_handler_orf_token for retransmitted tokens.
SingleToken ==
    \A t, u \in Acceptable : t = u

\* A message that some node still lacks is still in the sort queue of some node,
\* so that messages_free never makes a retransmit request unanswerable.
Recoverable ==
    \A m \in mcasts, n \in Node :
        my_aru[n] < m.seq /\ regular_sort_queue[n][m.seq] = None
            => \E h \in Node : regular_sort_queue[h][m.seq] # None

\* The flow control counts of the token are the sums of what the nodes put into
\* them at their last visit (fcc_token_update), so the unsigned subtractions of
\* fcc_calculate do not wrap, and one rotation transmits no more than
\* window_size messages.
RingSum(f) ==
    LET sum[n \in 0..N] == IF n = 0 THEN 0 ELSE sum[n - 1] + f[n]
    IN  sum[N]

WindowRespected ==
    \A t \in Acceptable :
        /\ t[2].fcc = RingSum(my_trc)
        /\ t[2].fcc <= window_size
        /\ t[2].backlog = RingSum(my_pbl)

\* The asserts on the sort queue: no node is asked to find, request, deliver or
\* store a message QSize or more beyond the ones it has released
\* (orf_token_rtr, messages_free, messages_deliver_to_app, sq_item_get).
SortQueueFits ==
    /\ \A n \in Node :
          /\ last_released[n] <= my_high_delivered[n]
          /\ my_high_delivered[n] <= my_aru[n]
          /\ my_aru[n] <= my_high_seq_received[n]
          /\ my_high_seq_received[n] <= last_released[n] + QSize
          /\ my_high_seq_received[n] - my_high_delivered[n] < QSize
    /\ \A t \in Acceptable : t[2].seq - my_aru[t[1]] < QSize

----------------------------------------------------------------------------
(***************************************************************************)
(* The inductive invariant behind AgreedDelivery and SingleToken.          *)
(***************************************************************************)

\* h is the node that accepted the token last.  The nodes accepted it in the
\* order of the ring; the token h passed on is the only one its destination has
\* not accepted; and if that destination is still on the ring, the token counts
\* every message numbered so far.
RingAt(h) ==
    /\ \A j \in Node :
          my_token_seq[j] = my_token_seq[h] - (h - j) - (IF j <= h THEN 0 ELSE N)
    /\ orf_token_retransmit[h].token_seq = my_token_seq[h] + 1
    /\ \A j \in Node \ {h} :
          orf_token_retransmit[j].token_seq <= my_token_seq[Succ(j)]
    /\ \A t \in tokens : \/ t[2].token_seq <= my_token_seq[t[1]]
                         \/ t = <<Succ(h), orf_token_retransmit[h]>>
    /\ memb_state[Succ(h)] = "OPERATIONAL"
          => \A m \in mcasts : m.seq <= orf_token_retransmit[h].seq

RingInv == \E h \in Node : RingAt(h)

\* A sequence number names one message; what is in a sort queue, or was
\* delivered in i-th place, was multicast with that number.
ContentInv ==
    /\ \A x, y \in mcasts : x.seq = y.seq => x = y
    /\ \A n \in Node, s \in Seqno :
          regular_sort_queue[n][s] # None
              => [seq |-> s, msg |-> regular_sort_queue[n][s]] \in mcasts
    /\ \A n \in Node :
          /\ Len(delivered[n]) = my_high_delivered[n]
          /\ \A i \in 1..my_high_delivered[n] :
                [seq |-> i, msg |-> delivered[n][i]] \in mcasts

OrderInv == TypeOK /\ RingInv /\ ContentInv

============================================================================
