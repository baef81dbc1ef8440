-------------------------- MODULE TotemRingProofs --------------------------
(***************************************************************************)
(* Proofs about TotemRing: the type invariant, the uniqueness of the token *)
(* and agreed delivery, for every number of nodes and every configuration. *)
(***************************************************************************)
EXTENDS TotemRing, FiniteSetTheorems, TLAPS

----------------------------------------------------------------------------
(***************************************************************************)
(* Facts about the operators.                                              *)
(***************************************************************************)

\* Unsigned addition stays in the naturals.
LEMMA UintAddType ==
    ASSUME NEW a \in Int, NEW b \in Int
    PROVE  UintAdd(a, b) \in Nat
BY RingAssumption DEF UintAdd

\* What remains of a message queue is a message queue.
LEMMA SubSeqType ==
    ASSUME NEW S, NEW q \in Seq(S), NEW k \in 0..Len(q)
    PROVE  SubSeq(q, k + 1, Len(q)) \in Seq(S)
OBVIOUS

\* Retransmit lists are finite.
LEMMA FiniteRtr ==
    ASSUME NEW S \in SUBSET Seqno
    PROVE  IsFiniteSet(S) /\ Cardinality(S) \in Nat
<1>1. IsFiniteSet(1..MaxSeq)
  BY RingAssumption, FS_Interval
<1>2. IsFiniteSet(S)
  BY <1>1, FS_Subset DEF Seqno
<1>. QED
  BY <1>2, FS_CardinalityType

\* The successor of a node is a node.
LEMMA SuccType ==
    ASSUME NEW n \in Node
    PROVE  Succ(n) \in Node
BY RingAssumption DEF Node, Succ

\* The point messages_free releases up to lies between last_released and the
\* larger of last_released and the aru of the token.
LEMMA ReleaseType ==
    ASSUME TypeOK, NEW n \in Node, NEW a \in 0..MaxSeq
    PROVE  messages_free(n, a) \in 0..MaxSeq
BY RingAssumption DEF TypeOK, messages_free, SmallerOf, LargerOf

\* What remains in the sort queue after sq_items_release was in it before.
LEMMA ReleasedType ==
    ASSUME NEW sq \in [Seqno -> Msg \cup {None}], NEW to \in 0..MaxSeq
    PROVE  /\ Released(sq, to) \in [Seqno -> Msg \cup {None}]
           /\ \A s \in Seqno : Released(sq, to)[s] # None
                                  => Released(sq, to)[s] = sq[s]
BY DEF Released

----------------------------------------------------------------------------
(***************************************************************************)
(* Type correctness.                                                       *)
(***************************************************************************)

\* The state in which operational is entered has the declared types.
LEMMA InitType == Init => TypeOK
<1>. SUFFICES ASSUME Init PROVE TypeOK
  OBVIOUS
<1>1. \A n \in Node : FirstToken(n) \in Token
  BY RingAssumption DEF FirstToken, Token, Node, Addr
<1>2. tokens \subseteq Node \X Token
  BY <1>1, SuccType DEF Init
<1>. QED
  BY <1>1, <1>2, RingAssumption DEF Init, TypeOK, Node

\* The queue in use and the ways it changes.
LEMMA QueueType ==
    ASSUME TypeOK, NEW n \in Node
    PROVE  QueueInUse(n) \in Seq(Msg) /\ Len(QueueInUse(n)) \in Nat
BY DEF TypeOK, QueueInUse

\* Either queue of new messages keeps its type when the one in use changes.
LEMMA SetQueueType ==
    ASSUME TypeOK, NEW n \in Node, NEW q \in Seq(Msg), SetQueueInUse(n, q)
    PROVE  /\ new_message_queue' \in [Node -> Seq(Msg)]
           /\ new_message_queue_trans' \in [Node -> Seq(Msg)]
BY Zenon DEF TypeOK, SetQueueInUse

\* Delivery appends messages of the sort queue.
LEMMA DeliverType ==
    ASSUME TypeOK, NEW n \in Node, NEW sq \in [Seqno -> Msg \cup {None}],
           NEW released, NEW high \in 0..MaxSeq, NEW d \in 0..MaxSeq,
           messages_deliver_to_app(sq, released, my_high_delivered[n], high, d),
           Deliver(n, sq, my_high_delivered[n], d)
    PROVE  /\ my_high_delivered' \in [Node -> 0..MaxSeq]
           /\ delivered' \in [Node -> Seq(Msg)]
<1>. DEFINE from == my_high_delivered[n]
            f == [i \in 1..(d - from) |-> sq[from + i]]
<1>1. from \in 0..MaxSeq /\ delivered[n] \in Seq(Msg)
  BY DEF TypeOK
<1>2. from <= d
  BY DEF messages_deliver_to_app
<1>3. d - from \in Nat
  BY <1>1, <1>2, RingAssumption
<1>4. \A i \in 1..(d - from) : from + i \in Seqno /\ from + i \in (from + 1)..d
  BY <1>1, <1>3, RingAssumption DEF Seqno
<1>5. \A i \in 1..(d - from) : sq[from + i] \in Msg
  BY <1>4 DEF messages_deliver_to_app
<1>6. delivered[n] \o f \in Seq(Msg)
  <2>. HIDE DEF from
  <2>. QED
    BY <1>1, <1>3, <1>5
<1>. QED
  BY <1>6 DEF Deliver, TypeOK

\* totemsrp_mcast keeps the types.
LEMMA McastType ==
    ASSUME TypeOK, NEW n \in Node, totemsrp_mcast(n)
    PROVE  TypeOK'
<1>0. mcast_count[n] \in 0..MaxMcast /\ mcast_count[n] < MaxMcast
  BY DEF TypeOK, totemsrp_mcast
<1>1. [from |-> n, id |-> mcast_count[n] + 1] \in Msg
  BY <1>0, RingAssumption DEF Msg
<1>2. Append(QueueInUse(n), [from |-> n, id |-> mcast_count[n] + 1]) \in Seq(Msg)
  BY <1>1, QueueType
<1>3. /\ new_message_queue' \in [Node -> Seq(Msg)]
      /\ new_message_queue_trans' \in [Node -> Seq(Msg)]
  BY Zenon, <1>2, SetQueueType DEF totemsrp_mcast
<1>4. mcast_count' \in [Node -> 0..MaxMcast]
  <2>1. mcast_count[n] + 1 \in 0..MaxMcast
    BY <1>0, RingAssumption
  <2>. QED
    BY <2>1 DEF TypeOK, totemsrp_mcast
<1>. QED
  BY Zenon, <1>3, <1>4 DEF TypeOK, totemsrp_mcast, sortVars, visitVars, holdVars, netVars

\* message_handler_mcast keeps the types.
LEMMA ReceiveType ==
    ASSUME TypeOK, NEW n \in Node, NEW m \in mcasts, message_handler_mcast(n, m)
    PROVE  TypeOK'
<1>. DEFINE fresh == /\ sq_in_range(last_released[n], m.seq)
                     /\ regular_sort_queue[n][m.seq] = None
            sq    == IF fresh
                     THEN [regular_sort_queue[n] EXCEPT ![m.seq] = m.msg]
                     ELSE regular_sort_queue[n]
            high  == IF fresh THEN LargerOf(my_high_seq_received[n], m.seq)
                              ELSE my_high_seq_received[n]
<1>1. m.seq \in Seqno /\ m.msg \in Msg
  BY SMTT(30) DEF TypeOK, Mcast
<1>2. sq \in [Seqno -> Msg \cup {None}]
  BY <1>1 DEF TypeOK
<1>3. high \in 0..MaxSeq
  <2>1. my_high_seq_received[n] \in 0..MaxSeq
    BY DEF TypeOK
  <2>. QED
    BY <1>1, <2>1, RingAssumption DEF LargerOf, Seqno
<1>4. /\ regular_sort_queue' \in [Node -> [Seqno -> Msg \cup {None}]]
      /\ my_high_seq_received' \in [Node -> 0..MaxSeq]
      /\ my_aru' \in [Node -> 0..MaxSeq]
  BY ZenonT(30), <1>2, <1>3 DEF TypeOK, message_handler_mcast
<1>5. miss_count' \in [Node -> [Seqno -> 0..miss_count_const]]
  <2>1. miss_count \in [Node -> [Seqno -> 0..miss_count_const]]
    BY DEF TypeOK
  <2>2. miss_count' = [miss_count EXCEPT ![n][m.seq] = 0]
           \/ miss_count' = miss_count
    BY DEF message_handler_mcast
  <2>. QED
    BY <1>1, <2>1, <2>2, RingAssumption
<1>6. /\ my_high_delivered' \in [Node -> 0..MaxSeq]
      /\ delivered' \in [Node -> Seq(Msg)]
  <2>1. CASE memb_state[n] = "OPERATIONAL"
    <3>1. PICK d \in 0..MaxSeq :
             /\ messages_deliver_to_app(sq, last_released[n],
                                        my_high_delivered[n], high, d)
             /\ Deliver(n, sq, my_high_delivered[n], d)
      BY <2>1 DEF message_handler_mcast
    <3>. QED
      BY Zenon, <1>2, <1>3, <3>1, DeliverType
  <2>2. CASE memb_state[n] # "OPERATIONAL"
    BY SMTT(30), <2>2 DEF message_handler_mcast, TypeOK
  <2>. QED
    BY <2>1, <2>2
<1>. QED
  BY Zenon, <1>4, <1>5, <1>6
  DEF TypeOK, message_handler_mcast, appVars, visitVars, holdVars, netVars

\* What a node that accepts a token computes.
LEMMA VisitType ==
    ASSUME TypeOK, NEW n \in Node, NEW token \in Token,
           NEW sq \in [Seqno -> Msg \cup {None}],
           NEW sent \in 0..Len(QueueInUse(n)), token.seq + sent <= MaxSeq,
           NEW resent \in SUBSET token.rtr, NEW aru \in 0..MaxSeq,
           NEW rtr \in SUBSET Seqno
    PROVE  /\ WithMcasts(n, token, sq, sent) \in [Seqno -> Msg \cup {None}]
           /\ \A s \in (token.seq + 1)..(token.seq + sent) :
                 s \in Seqno /\ WithMcasts(n, token, sq, sent)[s] \in Msg
           /\ Cardinality(resent) + sent \in Nat
           /\ AruCount(n, TokenAru(n, token, sent, aru))
                 \in 0..(fail_to_recv_const + 1)
           /\ NextToken(n, token, rtr, Cardinality(resent) + sent, sent, aru)
                 \in Token
<1>1. /\ token.token_seq \in Nat /\ token.seq \in 0..MaxSeq
      /\ token.aru \in 0..MaxSeq /\ token.aru_addr \in Addr
      /\ token.fcc \in Nat /\ token.backlog \in Nat /\ token.rtr \in SUBSET Seqno
  BY DEF Token
<1>2. QueueInUse(n) \in Seq(Msg) /\ Len(QueueInUse(n)) \in Nat
  BY QueueType
<1>3. Cardinality(resent) \in Nat
  BY <1>1, FiniteRtr
<1>4. /\ my_trc[n] \in Nat /\ my_pbl[n] \in Nat
      /\ my_aru_count[n] \in 0..(fail_to_recv_const + 1)
  BY DEF TypeOK
<1>5. \A s \in Seqno : s > token.seq /\ s <= token.seq + sent
                          => QueueInUse(n)[s - token.seq] \in Msg
  <2>. TAKE s \in Seqno
  <2>. HAVE s > token.seq /\ s <= token.seq + sent
  <2>1. s - token.seq \in 1..Len(QueueInUse(n))
    BY <1>1, <1>2, RingAssumption DEF Seqno
  <2>. QED
    BY <1>2, <2>1
<1>6. WithMcasts(n, token, sq, sent) \in [Seqno -> Msg \cup {None}]
  BY <1>5 DEF WithMcasts
<1>7. \A s \in (token.seq + 1)..(token.seq + sent) :
         s \in Seqno /\ WithMcasts(n, token, sq, sent)[s] \in Msg
  <2>. TAKE s \in (token.seq + 1)..(token.seq + sent)
  <2>1. s \in Seqno /\ s > token.seq /\ s <= token.seq + sent
    BY <1>1, <1>2, RingAssumption DEF Seqno
  <2>. QED
    BY <1>5, <2>1 DEF WithMcasts
<1>8. Cardinality(resent) + sent \in Nat
  BY <1>2, <1>3
<1>9. AruCount(n, TokenAru(n, token, sent, aru)) \in 0..(fail_to_recv_const + 1)
  BY <1>4, RingAssumption DEF AruCount, SmallerOf
<1>10. NextToken(n, token, rtr, Cardinality(resent) + sent, sent, aru) \in Token
  <2>1. /\ TokenAru(n, token, sent, aru).aru \in 0..MaxSeq
        /\ TokenAru(n, token, sent, aru).addr \in Addr
    BY <1>1, RingAssumption DEF TokenAru, Addr, Node
  <2>2. UintAdd(token.fcc, (Cardinality(resent) + sent) - my_trc[n]) \in Nat
    <3>1. token.fcc \in Int /\ (Cardinality(resent) + sent) - my_trc[n] \in Int
      BY <1>1, <1>4, <1>8
    <3>. QED
      BY <3>1, UintAddType, Zenon
  <2>3. UintAdd(token.backlog, Len(QueueInUse(n)) - my_pbl[n]) \in Nat
    <3>1. token.backlog \in Int /\ Len(QueueInUse(n)) - my_pbl[n] \in Int
      BY <1>1, <1>2, <1>4
    <3>. QED
      BY <3>1, UintAddType, Zenon
  <2>4. token.token_seq + 1 \in Nat /\ token.seq + sent \in 0..MaxSeq
    BY <1>1, <1>2, RingAssumption
  <2>. QED
    BY <2>1, <2>2, <2>3, <2>4 DEF NextToken, Token
<1>. QED
  BY <1>6, <1>7, <1>8, <1>9, <1>10

\* A node that accepts a token, whether it then forwards it or leaves the ring.
LEMMA AcceptType ==
    ASSUME TypeOK, NEW n \in Node, NEW token \in Token,
           NEW sq \in [Seqno -> Msg \cup {None}], NEW released \in 0..MaxSeq,
           NEW held \in BOOLEAN, NEW sent \in 0..Len(QueueInUse(n)),
           NEW resent \in SUBSET token.rtr, NEW aru \in 0..MaxSeq,
           AcceptToken(n, token, sq, released, held, resent, sent, aru),
           my_last_seq' \in [Node -> 0..MaxSeq],
           my_seq_unchanged' \in [Node -> 0..(seqno_unchanged_const + 1)],
           last_released' \in [Node -> 0..MaxSeq]
    PROVE  TypeOK'
<1>. DEFINE rtr == orf_token_rtr(n, token, sq, released, resent)
            sq2 == WithMcasts(n, token, sq, sent)
            high == IF sent > 0 THEN token.seq + sent ELSE my_high_seq_received[n]
            group == TokenAru(n, token, sent, aru)
            count == AruCount(n, group)
            transmitted == Cardinality(resent) + sent
            next == NextToken(n, token, rtr, transmitted, sent, aru)
            stillHeld == /\ held
                         /\ \/ ~ cancel_token_hold_on_retransmit
                            \/ rtr = {} /\ resent = {}
<1>1. token.seq \in 0..MaxSeq /\ token.aru \in 0..MaxSeq /\ token.token_seq \in Nat
      /\ token.rtr \in SUBSET Seqno
  BY DEF Token
<1>2. token.seq + sent <= MaxSeq
  BY Zenon DEF AcceptToken
<1>3. QueueInUse(n) \in Seq(Msg) /\ Len(QueueInUse(n)) \in Nat
  BY QueueType
<1>4. rtr \in SUBSET Seqno
  <2>1. Missing(n, token, sq, released) \subseteq Seqno
    <3>1. my_aru[n] \in 0..MaxSeq
      BY DEF TypeOK
    <3>. SUFFICES ASSUME NEW s \in Missing(n, token, sq, released)
                  PROVE  s \in Seqno
      OBVIOUS
    <3>2. s \in (my_aru[n] + 1)..token.seq
      BY DEF Missing
    <3>. QED
      BY SMTT(60), <1>1, <3>1, <3>2, RingAssumption DEF Seqno
  <2>. QED
    BY <1>1, <2>1 DEF orf_token_rtr, Ripe, Examined
<1>5. /\ sq2 \in [Seqno -> Msg \cup {None}]
      /\ \A s \in (token.seq + 1)..(token.seq + sent) :
            s \in Seqno /\ sq2[s] \in Msg
      /\ transmitted \in Nat /\ count \in 0..(fail_to_recv_const + 1)
      /\ next \in Token
  BY <1>2, <1>4, VisitType, Zenon
<1>6. high \in 0..MaxSeq
  <2>1. my_high_seq_received[n] \in 0..MaxSeq
    BY DEF TypeOK
  <2>. QED
    BY <1>1, <1>2, <1>3, <2>1, RingAssumption
<1>. HIDE DEF rtr, high, group, count, transmitted, next, sq2, stillHeld
<1>7. /\ regular_sort_queue' = [regular_sort_queue EXCEPT ![n] = sq2]
      /\ my_high_seq_received' = [my_high_seq_received EXCEPT ![n] = high]
      /\ my_aru' = [my_aru EXCEPT ![n] = aru]
      /\ my_last_aru' = [my_last_aru EXCEPT ![n] = token.aru]
      /\ my_aru_count' = [my_aru_count EXCEPT ![n] = count]
      /\ my_token_held' = [my_token_held EXCEPT ![n] = stillHeld]
      /\ my_trc' = [my_trc EXCEPT ![n] = transmitted]
      /\ my_pbl' = [my_pbl EXCEPT ![n] = Len(QueueInUse(n))]
      /\ UNCHANGED <<waiting_trans_ack, mcast_count, hold_cancels>>
  BY Zenon DEF AcceptToken, rtr, high, group, count, transmitted, sq2, stillHeld
<1>8. /\ regular_sort_queue' \in [Node -> [Seqno -> Msg \cup {None}]]
      /\ my_high_seq_received' \in [Node -> 0..MaxSeq]
      /\ my_aru' \in [Node -> 0..MaxSeq]
      /\ my_last_aru' \in [Node -> 0..MaxSeq]
      /\ my_aru_count' \in [Node -> 0..(fail_to_recv_const + 1)]
      /\ my_trc' \in [Node -> Nat] /\ my_pbl' \in [Node -> Nat]
      /\ waiting_trans_ack' \in [Node -> BOOLEAN]
      /\ mcast_count' \in [Node -> 0..MaxMcast]
      /\ hold_cancels' \subseteq Node
  BY ZenonT(30), <1>1, <1>3, <1>5, <1>6, <1>7 DEF TypeOK
<1>9. my_token_held' \in [Node -> BOOLEAN]
  <2>1. stillHeld \in BOOLEAN
    BY DEF stillHeld
  <2>. QED
    BY <1>7, <2>1 DEF TypeOK
<1>10. /\ new_message_queue' \in [Node -> Seq(Msg)]
       /\ new_message_queue_trans' \in [Node -> Seq(Msg)]
  <2>1. SubSeq(QueueInUse(n), sent + 1, Len(QueueInUse(n))) \in Seq(Msg)
    BY <1>3, SubSeqType
  <2>2. SetQueueInUse(n, SubSeq(QueueInUse(n), sent + 1, Len(QueueInUse(n))))
    BY Zenon DEF AcceptToken
  <2>. QED
    BY ZenonT(30), <2>1, <2>2, SetQueueType
<1>11. mcasts' \subseteq Mcast
  <2>1. \A s \in resent : s \in Seqno /\ sq2[s] \in Msg
    <3>1. \A s \in resent : s \in Seqno /\ sq[s] \in Msg
      BY Zenon, <1>1 DEF AcceptToken, orf_token_remcast
    <3>. QED
      BY <1>1, <1>2, <1>3, <1>5, <3>1, RingAssumption DEF sq2, WithMcasts, Seqno
  <2>2. mcasts' = mcasts \cup {[seq |-> s, msg |-> sq2[s]] :
                       s \in resent \cup (token.seq + 1)..(token.seq + sent)}
    BY ZenonT(30) DEF AcceptToken, sq2
  <2>. SUFFICES ASSUME NEW m \in mcasts' \ mcasts PROVE m \in Mcast
    BY DEF TypeOK
  <2>3. PICK s \in resent \cup (token.seq + 1)..(token.seq + sent) :
           m = [seq |-> s, msg |-> sq2[s]]
    BY <2>2
  <2>4. s \in Seqno /\ sq2[s] \in Msg
    BY <1>5, <2>1
  <2>. QED
    BY <2>3, <2>4 DEF Mcast
<1>12. miss_count' \in [Node -> [Seqno -> 0..miss_count_const]]
  <2>1. \A s \in Seqno : SmallerOf(miss_count[n][s] + 1, miss_count_const)
                            \in 0..miss_count_const
    <3>. TAKE s \in Seqno
    <3>1. miss_count[n][s] \in 0..miss_count_const
      BY SMTT(60) DEF TypeOK
    <3>. QED
      BY <3>1, RingAssumption DEF SmallerOf
  <2>2. 0 \in 0..miss_count_const
    BY RingAssumption
  <2>. QED
    BY ZenonT(30), <2>1, <2>2 DEF AcceptToken, TypeOK
<1>13. /\ memb_state' \in [Node -> {"OPERATIONAL", "GATHER"}]
       /\ my_token_seq' \in [Node -> Nat]
       /\ orf_token_retransmit' \in [Node -> Token]
       /\ tokens' \subseteq Node \X Token
       /\ my_high_delivered' \in [Node -> 0..MaxSeq]
       /\ delivered' \in [Node -> Seq(Msg)]
  <2>1. CASE FailToReceive(n)
    BY Zenon, <2>1 DEF FailToReceive, TypeOK
  <2>2. CASE ForwardToken(n, token, next, sq2, released, high, stillHeld)
    <3>1. PICK d \in 0..MaxSeq :
             /\ messages_deliver_to_app(sq2, released, my_high_delivered[n],
                                        high, d)
             /\ Deliver(n, sq2, my_high_delivered[n], d)
      BY <2>2 DEF ForwardToken
    <3>2. /\ my_high_delivered' \in [Node -> 0..MaxSeq]
          /\ delivered' \in [Node -> Seq(Msg)]
      BY Zenon, <1>5, <1>6, <3>1, DeliverType
    <3>3. Succ(n) \in Node
      BY SuccType
    <3>4. /\ memb_state' \in [Node -> {"OPERATIONAL", "GATHER"}]
          /\ my_token_seq' \in [Node -> Nat]
          /\ orf_token_retransmit' \in [Node -> Token]
      BY Zenon, <1>1, <1>5, <2>2 DEF ForwardToken, TypeOK
    <3>5. tokens' \subseteq tokens \cup {<<Succ(n), next>>}
      BY <2>2 DEF ForwardToken
    <3>6. tokens' \subseteq Node \X Token
      <4>1. tokens \subseteq Node \X Token /\ <<Succ(n), next>> \in Node \X Token
        BY <1>5, <3>3 DEF TypeOK
      <4>. QED
        BY SMTT(30), <3>5, <4>1
    <3>. QED
      BY SMTT(30), <3>2, <3>4, <3>6
  <2>. QED
    BY Zenon, <2>1, <2>2
    DEF AcceptToken, rtr, high, group, count, transmitted, next, sq2, stillHeld
<1>. QED
  BY ZenonT(30), <1>8, <1>9, <1>10, <1>11, <1>12, <1>13 DEF TypeOK

\* message_handler_orf_token keeps the types, whether the token is accepted,
\* held, discarded or ends in a failure to receive.
LEMMA TokenHandlerType ==
    ASSUME TypeOK, NEW n \in Node, NEW token \in Token,
           message_handler_orf_token(n, token)
    PROVE  TypeOK'
<1>. DEFINE unchanged == IF token.seq = my_last_seq[n]
                         THEN SmallerOf(my_seq_unchanged[n] + 1,
                                        seqno_unchanged_const + 1)
                         ELSE 0
            held == TokenIsHeld(n, unchanged)
            released == messages_free(n, token.aru)
            sq == Released(regular_sort_queue[n], released)
<1>1. token.seq \in 0..MaxSeq /\ token.aru \in 0..MaxSeq
  BY DEF Token
<1>2. released \in 0..MaxSeq
  BY <1>1, ReleaseType
<1>3. sq \in [Seqno -> Msg \cup {None}]
  BY ZenonT(30), <1>2, ReleasedType DEF TypeOK
<1>4. unchanged \in 0..(seqno_unchanged_const + 1)
  <2>1. my_seq_unchanged[n] \in 0..(seqno_unchanged_const + 1)
    BY DEF TypeOK
  <2>. QED
    BY <2>1, RingAssumption DEF SmallerOf
<1>5. held \in BOOLEAN
  BY DEF TokenIsHeld
<1>. HIDE DEF unchanged, held, released, sq
<1>6. /\ my_last_seq' \in [Node -> 0..MaxSeq]
      /\ my_seq_unchanged' \in [Node -> 0..(seqno_unchanged_const + 1)]
      /\ last_released' \in [Node -> 0..MaxSeq]
  BY Zenon, <1>1, <1>2, <1>4
  DEF TypeOK, message_handler_orf_token, unchanged, released
<1>7. CASE DiscardToken(n, token, sq, held)
  <2>1. /\ regular_sort_queue' \in [Node -> [Seqno -> Msg \cup {None}]]
        /\ my_token_held' \in [Node -> BOOLEAN]
    BY <1>3, <1>5, <1>7 DEF TypeOK, DiscardToken
  <2>. QED
    BY Zenon, <1>6, <1>7, <2>1 DEF TypeOK, DiscardToken, appVars, visitVars, netVars
<1>8. ASSUME NEW resent \in SUBSET token.rtr, NEW aru \in 0..MaxSeq,
             NEW sent \in 0..Len(QueueInUse(n)),
             AcceptToken(n, token, sq, released, held, resent, sent, aru)
      PROVE  TypeOK'
  BY Zenon, <1>2, <1>3, <1>5, <1>6, <1>8, AcceptType
<1>. QED
  BY <1>7, <1>8 DEF message_handler_orf_token, unchanged, held, released, sq

\* The actions that change only the hold of the token, the network or memb_state.
LEMMA OtherType ==
    ASSUME TypeOK, NEW n \in Node,
           \/ totemsrp_trans_ack(n)
           \/ token_retransmit(n)
           \/ token_hold_cancel_send(n)
           \/ message_handler_token_hold_cancel(n)
           \/ memb_state_gather_enter(n)
    PROVE  TypeOK'
<1>1. /\ <<Succ(n), orf_token_retransmit[n]>> \in Node \X Token
      /\ tokens \subseteq Node \X Token
  BY SuccType DEF TypeOK
<1>2. CASE totemsrp_trans_ack(n)
  BY Zenon, <1>2 DEF TypeOK, totemsrp_trans_ack, sortVars, visitVars, holdVars, netVars
<1>3. CASE token_retransmit(n)
  <2>1. tokens' \subseteq Node \X Token
    BY <1>1, <1>3 DEF token_retransmit
  <2>. QED
    BY ZenonT(30), <1>3, <2>1
    DEF TypeOK, token_retransmit, appVars, sortVars, visitVars, holdVars
<1>4. CASE token_hold_cancel_send(n)
  BY Zenon, <1>4 DEF TypeOK, token_hold_cancel_send, appVars, sortVars, visitVars
<1>5. CASE message_handler_token_hold_cancel(n)
  <2>1. tokens' \subseteq Node \X Token
    BY Zenon, <1>1, <1>5 DEF message_handler_token_hold_cancel
  <2>2. my_seq_unchanged' \in [Node -> 0..(seqno_unchanged_const + 1)]
    BY <1>5, RingAssumption DEF TypeOK, message_handler_token_hold_cancel
  <2>. QED
    BY Zenon, <1>5, <2>1, <2>2
    DEF TypeOK, message_handler_token_hold_cancel, appVars, sortVars, visitVars
<1>6. CASE memb_state_gather_enter(n)
  BY Zenon, <1>6
  DEF TypeOK, memb_state_gather_enter, appVars, sortVars, visitVars, holdVars,
      netVars
<1>. QED
  BY <1>2, <1>3, <1>4, <1>5, <1>6

\* Every step keeps the types.
LEMMA NextType == TypeOK /\ [Next]_vars => TypeOK'
<1>. SUFFICES ASSUME TypeOK, [Next]_vars PROVE TypeOK'
  OBVIOUS
<1>1. CASE UNCHANGED vars
  BY <1>1 DEF TypeOK, vars, appVars, sortVars, visitVars, holdVars, netVars
<1>2. ASSUME NEW n \in Node, NEW t \in tokens, t[1] = n,
             message_handler_orf_token(n, t[2])
      PROVE  TypeOK'
  <2>1. t[2] \in Token
    BY DEF TypeOK
  <2>. QED
    BY <1>2, <2>1, TokenHandlerType
<1>3. CASE Next
  BY <1>2, <1>3, McastType, ReceiveType, OtherType DEF Next
<1>. QED
  BY <1>1, <1>3

\* Every variable keeps its type: among other things, every sequence number a
\* node computes stays within the numbers handed out, and every message queue,
\* sort queue and delivery holds messages only.
THEOREM TypeCorrect == Spec => []TypeOK
BY InitType, NextType, PTL DEF Spec

----------------------------------------------------------------------------
(***************************************************************************)
(* Order.                                                                  *)
(***************************************************************************)

\* The first token is the only one, and no message has a number yet.
LEMMA InitOrder == Init => RingInv /\ ContentInv
<1>. SUFFICES ASSUME Init PROVE RingInv /\ ContentInv
  OBVIOUS
<1>1. N \in Node
  BY RingAssumption DEF Node
<1>2. RingAt(N)
  <2>1. \A j \in Node : my_token_seq[j] = j - 1
    BY DEF Init
  <2>2. \A j \in Node : my_token_seq[j] = my_token_seq[N] - (N - j)
                                          - (IF j <= N THEN 0 ELSE N)
    BY <1>1, <2>1, RingAssumption DEF Node
  <2>3. \A j \in Node : orf_token_retransmit[j].token_seq = j
    BY DEF Init, FirstToken
  <2>4. \A j \in Node \ {N} : Succ(j) = j + 1 /\ Succ(j) \in Node
    BY SuccType DEF Succ
  <2>5. \A j \in Node \ {N} :
           orf_token_retransmit[j].token_seq <= my_token_seq[Succ(j)]
    BY <2>1, <2>3, <2>4, RingAssumption DEF Node
  <2>6. \A t \in tokens : \/ t[2].token_seq <= my_token_seq[t[1]]
                          \/ t = <<Succ(N), orf_token_retransmit[N]>>
    <3>. TAKE t \in tokens
    <3>1. PICK j \in Node : t = <<Succ(j), FirstToken(j)>>
      BY DEF Init
    <3>2. t = <<Succ(j), orf_token_retransmit[j]>>
      BY <3>1 DEF Init
    <3>. QED
      BY <2>5, <3>2
  <2>7. orf_token_retransmit[N].token_seq = my_token_seq[N] + 1
    BY <1>1, <2>1, <2>3, RingAssumption
  <2>8. mcasts = {}
    BY DEF Init
  <2>. QED
    BY <2>2, <2>5, <2>6, <2>7, <2>8 DEF RingAt
<1>3. ContentInv
  <2>1. \A n \in Node, s \in Seqno : regular_sort_queue[n][s] = None
    BY DEF Init
  <2>2. \A n \in Node : my_high_delivered[n] = 0 /\ delivered[n] = << >>
    BY DEF Init
  <2>. QED
    BY <2>1, <2>2 DEF ContentInv, Init
<1>. QED
  BY <1>1, <1>2, <1>3 DEF RingInv

\* Sending the last token again, and leaving the ring, keep RingInv.
LEMMA RingStays ==
    ASSUME TypeOK, RingInv, NEW n \in Node,
           tokens' \subseteq tokens \cup {<<Succ(n), orf_token_retransmit[n]>>},
           UNCHANGED <<my_token_seq, orf_token_retransmit, mcasts>>,
           \/ UNCHANGED memb_state
           \/ memb_state' = [memb_state EXCEPT ![n] = "GATHER"]
    PROVE  RingInv'
<1>1. PICK h \in Node : RingAt(h)
  BY DEF RingInv
<1>2. \A t \in tokens' : \/ t[2].token_seq <= my_token_seq[t[1]]
                         \/ t = <<Succ(h), orf_token_retransmit[h]>>
  BY <1>1 DEF RingAt
<1>3. memb_state'[Succ(h)] = "OPERATIONAL" => memb_state[Succ(h)] = "OPERATIONAL"
  BY Zenon, SuccType DEF TypeOK
<1>4. RingAt(h)'
  BY <1>1, <1>2, <1>3 DEF RingAt
<1>. QED
  BY <1>4 DEF RingInv

\* Messages that enter the sort queue and the application were multicast.
LEMMA ContentStays ==
    ASSUME TypeOK, ContentInv, NEW n \in Node,
           NEW sq \in [Seqno -> Msg \cup {None}],
           mcasts \subseteq mcasts',
           \A x, y \in mcasts' : x.seq = y.seq => x = y,
           \A s \in Seqno : sq[s] # None
               => [seq |-> s, msg |-> sq[s]] \in mcasts',
           regular_sort_queue' = [regular_sort_queue EXCEPT ![n] = sq],
           \/ UNCHANGED <<my_high_delivered, delivered>>
           \/ \E released, high \in 0..MaxSeq, d \in 0..MaxSeq :
                 /\ messages_deliver_to_app(sq, released, my_high_delivered[n],
                                            high, d)
                 /\ Deliver(n, sq, my_high_delivered[n], d)
    PROVE  ContentInv'
<1>1. \A m \in Node, s \in Seqno :
         regular_sort_queue'[m][s] # None
             => [seq |-> s, msg |-> regular_sort_queue'[m][s]] \in mcasts'
  BY ZenonT(30) DEF ContentInv, TypeOK
<1>2. \A m \in Node :
         /\ Len(delivered'[m]) = my_high_delivered'[m]
         /\ \A i \in 1..my_high_delivered'[m] :
               [seq |-> i, msg |-> delivered'[m][i]] \in mcasts'
  <2>1. CASE UNCHANGED <<my_high_delivered, delivered>>
    BY SMTT(30), <2>1 DEF ContentInv
  <2>2. ASSUME NEW released, NEW high \in 0..MaxSeq, NEW d \in 0..MaxSeq,
               messages_deliver_to_app(sq, released, my_high_delivered[n],
                                       high, d),
               Deliver(n, sq, my_high_delivered[n], d)
        PROVE  /\ Len(delivered'[n]) = my_high_delivered'[n]
               /\ \A i \in 1..my_high_delivered'[n] :
                     [seq |-> i, msg |-> delivered'[n][i]] \in mcasts'
    <3>. DEFINE from == my_high_delivered[n]
                f == [i \in 1..(d - from) |-> sq[from + i]]
    <3>1. /\ from \in 0..MaxSeq /\ delivered[n] \in Seq(Msg)
          /\ Len(delivered[n]) = from
      BY Zenon DEF TypeOK, ContentInv
    <3>2. from <= d
      BY SMTT(30), <2>2 DEF messages_deliver_to_app
    <3>3. d - from \in Nat
      BY <3>1, <3>2, RingAssumption
    <3>4. /\ my_high_delivered'[n] = d
          /\ delivered'[n] = delivered[n] \o f
      BY ZenonT(30), <2>2 DEF Deliver, TypeOK
    <3>5. \A i \in 1..(d - from) : from + i \in Seqno /\ from + i \in (from + 1)..d
      BY <3>1, <3>3, RingAssumption DEF Seqno
    <3>6. \A i \in 1..(d - from) : /\ sq[from + i] \in Msg
                                   /\ [seq |-> from + i, msg |-> sq[from + i]]
                                        \in mcasts'
      BY <2>2, <3>5 DEF messages_deliver_to_app
    <3>. HIDE DEF from
    <3>7. /\ Len(delivered[n] \o f) = from + (d - from)
          /\ \A i \in 1..from : (delivered[n] \o f)[i] = delivered[n][i]
          /\ \A i \in 1..(d - from) : (delivered[n] \o f)[from + i] = sq[from + i]
      BY <3>1, <3>3, <3>6
    <3>8. \A i \in 1..d : \/ i \in 1..from
                          \/ i - from \in 1..(d - from) /\ i = from + (i - from)
      BY <3>1, <3>3
    <3>9. \A i \in 1..from : [seq |-> i, msg |-> delivered[n][i]] \in mcasts'
      BY DEF ContentInv, from
    <3>10. \A i \in 1..d : [seq |-> i, msg |-> (delivered[n] \o f)[i]] \in mcasts'
      <4>. TAKE i \in 1..d
      <4>1. CASE i \in 1..from
        BY Zenon, <3>7, <3>9, <4>1
      <4>2. CASE i - from \in 1..(d - from) /\ i = from + (i - from)
        BY ZenonT(30), <3>6, <3>7, <4>2
      <4>. QED
        BY Zenon, <3>8, <4>1, <4>2
    <3>11. from + (d - from) = d
      BY <3>1, RingAssumption
    <3>. HIDE DEF f
    <3>. QED
      BY <3>4, <3>7, <3>10, <3>11
  <2>3. ASSUME NEW d, Deliver(n, sq, my_high_delivered[n], d), NEW m \in Node \ {n}
        PROVE  /\ my_high_delivered'[m] = my_high_delivered[m]
               /\ delivered'[m] = delivered[m]
    BY <2>3 DEF Deliver, TypeOK
  <2>. QED
    BY SMTT(30), <2>1, <2>2, <2>3 DEF ContentInv
<1>. QED
  BY <1>1, <1>2 DEF ContentInv

\* message_handler_mcast stores and delivers what the number of the message
\* stands for on the whole ring.
LEMMA ReceiveOrder ==
    ASSUME TypeOK, RingInv, ContentInv, NEW n \in Node, NEW m \in mcasts,
           message_handler_mcast(n, m)
    PROVE  RingInv' /\ ContentInv'
<1>. DEFINE fresh == /\ sq_in_range(last_released[n], m.seq)
                     /\ regular_sort_queue[n][m.seq] = None
            sq    == IF fresh
                     THEN [regular_sort_queue[n] EXCEPT ![m.seq] = m.msg]
                     ELSE regular_sort_queue[n]
            high  == IF fresh THEN LargerOf(my_high_seq_received[n], m.seq)
                              ELSE my_high_seq_received[n]
<1>1. m.seq \in Seqno /\ m.msg \in Msg /\ m = [seq |-> m.seq, msg |-> m.msg]
  BY DEF TypeOK, Mcast
<1>2. sq \in [Seqno -> Msg \cup {None}]
  BY <1>1 DEF TypeOK
<1>3. high \in 0..MaxSeq
  <2>1. my_high_seq_received[n] \in 0..MaxSeq
    BY DEF TypeOK
  <2>. QED
    BY <1>1, <2>1, RingAssumption DEF LargerOf, Seqno
<1>4. \A s \in Seqno : sq[s] # None => [seq |-> s, msg |-> sq[s]] \in mcasts
  <2>. TAKE s \in Seqno
  <2>1. CASE fresh /\ s = m.seq
    BY SMTT(30), <1>1, <2>1 DEF TypeOK
  <2>2. CASE ~ (fresh /\ s = m.seq)
    <3>1. sq[s] = regular_sort_queue[n][s]
      BY SMTT(30), <1>1, <2>2 DEF TypeOK
    <3>. QED
      BY <3>1 DEF ContentInv
  <2>. QED
    BY <2>1, <2>2
<1>. HIDE DEF sq, high, fresh
<1>5. /\ regular_sort_queue' = [regular_sort_queue EXCEPT ![n] = sq]
      /\ UNCHANGED <<mcasts, tokens, my_token_seq, orf_token_retransmit, memb_state>>
      /\ \/ UNCHANGED <<my_high_delivered, delivered>>
         \/ \E d \in 0..MaxSeq :
               /\ messages_deliver_to_app(sq, last_released[n],
                                          my_high_delivered[n], high, d)
               /\ Deliver(n, sq, my_high_delivered[n], d)
  BY DEF message_handler_mcast, sq, high, fresh, visitVars, netVars
<1>6. ContentInv'
  <2>1. mcasts \subseteq mcasts'
        /\ (\A x, y \in mcasts' : x.seq = y.seq => x = y)
        /\ \A s \in Seqno : sq[s] # None => [seq |-> s, msg |-> sq[s]] \in mcasts'
    BY Zenon, <1>4, <1>5 DEF ContentInv
  <2>2. CASE UNCHANGED <<my_high_delivered, delivered>>
    BY Zenon, <1>2, <1>5, <2>1, <2>2, ContentStays
  <2>3. ASSUME NEW d \in 0..MaxSeq,
               messages_deliver_to_app(sq, last_released[n],
                                       my_high_delivered[n], high, d),
               Deliver(n, sq, my_high_delivered[n], d)
        PROVE  ContentInv'
    <3>1. last_released[n] \in 0..MaxSeq
      BY DEF TypeOK
    <3>. QED
      BY Zenon, <1>2, <1>3, <1>5, <2>1, <2>3, <3>1, ContentStays
  <2>. QED
    BY Zenon, <1>5, <2>2, <2>3
<1>7. RingInv'
  BY Zenon, <1>5, RingStays
<1>. QED
  BY <1>6, <1>7

\* Only the successor of the last node to accept the token accepts a token, and
\* it is the token that node passed on.
LEMMA AcceptedToken ==
    ASSUME TypeOK, NEW h \in Node, RingAt(h), NEW n \in Node, NEW token,
           <<n, token>> \in tokens, token.token_seq > my_token_seq[n]
    PROVE  n = Succ(h) /\ token = orf_token_retransmit[h]
<1>1. token \in Token /\ token.token_seq \in Nat /\ my_token_seq[n] \in Nat
  BY Zenon DEF TypeOK, Token
<1>2. ~ (token.token_seq <= my_token_seq[n])
  BY <1>1
<1>. QED
  BY Zenon, <1>2 DEF RingAt

\* The ring after the successor n of h accepted the token and passed it on.
LEMMA RingMoves ==
    ASSUME TypeOK, NEW h \in Node, RingAt(h), NEW n \in Node, n = Succ(h),
           memb_state[n] = "OPERATIONAL", NEW next \in Token,
           next.token_seq = orf_token_retransmit[h].token_seq + 1,
           my_token_seq' = [my_token_seq EXCEPT
                              ![n] = orf_token_retransmit[h].token_seq],
           orf_token_retransmit' = [orf_token_retransmit EXCEPT ![n] = next],
           tokens' \subseteq tokens \cup {<<Succ(n), next>>},
           \A m \in mcasts' : m.seq <= next.seq
    PROVE  RingAt(n)'
<1>1. my_token_seq \in [Node -> Nat] /\ orf_token_retransmit \in [Node -> Token]
  BY Zenon DEF TypeOK
<1>2. my_token_seq'[n] = my_token_seq[h] + 1
  BY <1>1 DEF RingAt
<1>3. \A j \in Node \ {n} : my_token_seq'[j] = my_token_seq[j]
  BY <1>1
<1>4. \A j \in Node : my_token_seq'[j] = my_token_seq'[n] - (n - j)
                                         - (IF j <= n THEN 0 ELSE N)
  <2>. TAKE j \in Node
  <2>1. /\ h \in 1..N /\ j \in 1..N /\ n \in 1..N /\ N \in Nat
        /\ my_token_seq[h] \in Nat
        /\ n = IF h = N THEN 1 ELSE h + 1
    BY <1>1, RingAssumption DEF Node, Succ
  <2>2. my_token_seq[j] = my_token_seq[h] - (h - j) - (IF j <= h THEN 0 ELSE N)
    BY DEF RingAt
  <2>3. CASE j = n
    BY <1>2, <2>1, <2>3
  <2>4. CASE j # n
    BY <1>2, <1>3, <2>1, <2>2, <2>4
  <2>. QED
    BY <2>3, <2>4
<1>5. \A j \in Node : my_token_seq[j] <= my_token_seq'[j]
  <2>1. my_token_seq[n] <= my_token_seq[h] + 1
    <3>1. my_token_seq[n] = my_token_seq[h] - (h - n) - (IF n <= h THEN 0 ELSE N)
      BY DEF RingAt
    <3>2. h \in 1..N /\ n \in 1..N /\ N \in Nat /\ my_token_seq[h] \in Nat
          /\ n = IF h = N THEN 1 ELSE h + 1
      BY <1>1, RingAssumption DEF Node, Succ
    <3>. QED
      BY <3>1, <3>2
  <2>. QED
    BY <1>1, <1>2, <1>3, <2>1
<1>6. orf_token_retransmit'[n].token_seq = my_token_seq'[n] + 1
  BY <1>1, <1>2 DEF RingAt
<1>7. \A j \in Node \ {n} :
         orf_token_retransmit'[j].token_seq <= my_token_seq'[Succ(j)]
  <2>. TAKE j \in Node \ {n}
  <2>1. orf_token_retransmit'[j] = orf_token_retransmit[j]
    BY <1>1
  <2>2. CASE j = h
    BY <1>1, <1>2, <2>1, <2>2 DEF RingAt
  <2>3. CASE j # h
    <3>1. orf_token_retransmit[j].token_seq <= my_token_seq[Succ(j)]
      BY <2>3 DEF RingAt
    <3>2. Succ(j) \in Node /\ orf_token_retransmit[j].token_seq \in Nat
      BY <1>1, SuccType DEF Token
    <3>3. my_token_seq[Succ(j)] \in Nat /\ my_token_seq'[Succ(j)] \in Nat
          /\ my_token_seq[Succ(j)] <= my_token_seq'[Succ(j)]
      BY SMTT(30), <1>1, <1>2, <1>3, <1>5, <3>2
    <3>. QED
      BY <2>1, <3>1, <3>2, <3>3
  <2>. QED
    BY <2>2, <2>3
<1>8. \A t \in tokens' : \/ t[2].token_seq <= my_token_seq'[t[1]]
                         \/ t = <<Succ(n), orf_token_retransmit'[n]>>
  <2>. TAKE t \in tokens'
  <2>1. CASE t = <<Succ(n), next>>
    BY <1>1, <2>1
  <2>2. CASE t \in tokens /\ t[2].token_seq <= my_token_seq[t[1]]
    <3>1. t[1] \in Node /\ t[2].token_seq \in Nat
      BY Zenon, <2>2 DEF TypeOK, Token
    <3>2. my_token_seq[t[1]] \in Nat /\ my_token_seq'[t[1]] \in Nat
          /\ my_token_seq[t[1]] <= my_token_seq'[t[1]]
      BY <1>1, <1>2, <1>3, <1>5, <3>1
    <3>. QED
      BY <2>2, <3>1, <3>2
  <2>3. CASE t = <<Succ(h), orf_token_retransmit[h]>>
    BY <1>1, <1>2, <2>3 DEF RingAt
  <2>. QED
    BY <2>1, <2>2, <2>3 DEF RingAt
<1>9. \A m \in mcasts' : m.seq <= orf_token_retransmit'[n].seq
  BY <1>1
<1>. QED
  BY <1>4, <1>6, <1>7, <1>8, <1>9 DEF RingAt

\* A node that accepts the token numbers its messages above every number used
\* so far.
LEMMA AcceptOrder ==
    ASSUME TypeOK, RingInv, ContentInv, NEW n \in Node, NEW token,
           <<n, token>> \in tokens, memb_state[n] = "OPERATIONAL",
           NEW sq \in [Seqno -> Msg \cup {None}], NEW released \in 0..MaxSeq,
           \A s \in Seqno : sq[s] # None => sq[s] = regular_sort_queue[n][s],
           NEW held \in BOOLEAN, NEW sent \in 0..Len(QueueInUse(n)),
           NEW resent \in SUBSET token.rtr, NEW aru \in 0..MaxSeq,
           AcceptToken(n, token, sq, released, held, resent, sent, aru),
           TypeOK'
    PROVE  RingInv' /\ ContentInv'
<1>. DEFINE rtr == orf_token_rtr(n, token, sq, released, resent)
            sq2 == WithMcasts(n, token, sq, sent)
            high == IF sent > 0 THEN token.seq + sent ELSE my_high_seq_received[n]
            transmitted == Cardinality(resent) + sent
            next == NextToken(n, token, rtr, transmitted, sent, aru)
            stillHeld == /\ held
                         /\ \/ ~ cancel_token_hold_on_retransmit
                            \/ rtr = {} /\ resent = {}
            numbered == (token.seq + 1)..(token.seq + sent)
<1>1. token \in Token
  BY Zenon DEF TypeOK
<1>2. /\ token.seq \in 0..MaxSeq /\ token.token_seq \in Nat
      /\ token.rtr \in SUBSET Seqno
  BY Zenon, <1>1 DEF Token
<1>3. /\ QueueInUse(n) \in Seq(Msg) /\ Len(QueueInUse(n)) \in Nat
      /\ sent \in Nat /\ token.seq + sent <= MaxSeq
  <2>1. QueueInUse(n) \in Seq(Msg) /\ Len(QueueInUse(n)) \in Nat
    BY Zenon, QueueType
  <2>2. token.seq + sent <= MaxSeq
    BY Zenon DEF AcceptToken
  <2>. QED
    BY <2>1, <2>2
<1>4. PICK h \in Node : RingAt(h)
  BY Zenon DEF RingInv
<1>5. n = Succ(h) /\ token = orf_token_retransmit[h]
  BY Zenon, <1>4, AcceptedToken DEF AcceptToken, TokenIsNew
<1>6. \A m \in mcasts : m.seq <= token.seq /\ m.seq \in Seqno
  BY Zenon, <1>4, <1>5 DEF RingAt, TypeOK, Mcast
<1>7. /\ sq2 \in [Seqno -> Msg \cup {None}]
      /\ \A s \in numbered : s \in Seqno /\ sq2[s] \in Msg
  BY <1>1, <1>3, VisitType, Zenon
<1>8. \A s \in Seqno : sq[s] # None
         => s <= token.seq /\ [seq |-> s, msg |-> sq[s]] \in mcasts
  <2>. TAKE s \in Seqno
  <2>. HAVE sq[s] # None
  <2>1. [seq |-> s, msg |-> sq[s]] \in mcasts
    <3>1. sq[s] = regular_sort_queue[n][s]
      BY Zenon
    <3>. QED
      BY Zenon, <3>1 DEF ContentInv
  <2>. QED
    BY Zenon, <1>6, <2>1
<1>9. \A s \in Seqno : s \notin numbered => sq2[s] = sq[s]
  BY <1>2, <1>3, RingAssumption DEF WithMcasts, Seqno
<1>10. \A s \in resent : s \in Seqno /\ sq[s] # None /\ s \notin numbered
  <2>1. \A s \in resent : s \in Seqno /\ sq[s] # None
    BY Zenon, <1>2 DEF AcceptToken, orf_token_remcast
  <2>. TAKE s \in resent
  <2>2. s <= token.seq /\ s \in Seqno
    BY Zenon, <1>8, <2>1
  <2>. QED
    BY <1>2, <2>1, <2>2, RingAssumption DEF Seqno
<1>11. mcasts' = mcasts \cup {[seq |-> s, msg |-> sq2[s]] : s \in resent \cup numbered}
  BY Zenon DEF AcceptToken
<1>. HIDE DEF sq2, numbered
<1>12. mcasts' = mcasts \cup {[seq |-> s, msg |-> sq2[s]] : s \in numbered}
  <2>1. \A s \in resent : [seq |-> s, msg |-> sq2[s]] \in mcasts
    <3>. TAKE s \in resent
    <3>1. sq2[s] = sq[s] /\ [seq |-> s, msg |-> sq[s]] \in mcasts
      BY Zenon, <1>8, <1>9, <1>10
    <3>. QED
      BY Zenon, <3>1
  <2>. QED
    BY ZenonT(30), <1>11, <2>1
<1>13. \A s \in numbered : s > token.seq /\ s <= token.seq + sent
  BY <1>2, <1>3, RingAssumption DEF numbered
<1>14. \A x, y \in mcasts' : x.seq = y.seq => x = y
  <2>. TAKE x, y \in mcasts'
  <2>. HAVE x.seq = y.seq
  <2>1. CASE x \in mcasts /\ y \in mcasts
    BY <2>1 DEF ContentInv
  <2>2. ASSUME NEW z \in mcasts PROVE z.seq \notin numbered
    BY <1>2, <1>6, <1>13, RingAssumption DEF Seqno
  <2>3. CASE x \notin mcasts \/ y \notin mcasts
    <3>1. /\ x \in mcasts \/ \E s \in numbered : x = [seq |-> s, msg |-> sq2[s]]
          /\ y \in mcasts \/ \E s \in numbered : y = [seq |-> s, msg |-> sq2[s]]
      BY SMTT(30), <1>12
    <3>. QED
      BY SMTT(30), <2>2, <2>3, <3>1
  <2>. QED
    BY <2>1, <2>3
<1>15. \A s \in Seqno : sq2[s] # None => [seq |-> s, msg |-> sq2[s]] \in mcasts'
  <2>. TAKE s \in Seqno
  <2>1. CASE s \in numbered
    BY ZenonT(30), <1>12, <2>1
  <2>2. CASE s \notin numbered
    <3>1. sq2[s] = sq[s]
      BY Zenon, <1>9, <2>2
    <3>2. mcasts \subseteq mcasts'
      BY Zenon, <1>12
    <3>. HAVE sq2[s] # None
    <3>3. [seq |-> s, msg |-> sq[s]] \in mcasts
      BY Zenon, <1>8, <3>1
    <3>. QED
      BY Zenon, <3>1, <3>2, <3>3
  <2>. QED
    BY <2>1, <2>2
<1>16. high \in 0..MaxSeq
  <2>1. my_high_seq_received[n] \in 0..MaxSeq
    BY Zenon DEF TypeOK
  <2>. QED
    BY <1>2, <1>3, <2>1, RingAssumption
<1>17. \/ FailToReceive(n)
       \/ ForwardToken(n, token, next, sq2, released, high, stillHeld)
  BY Zenon DEF AcceptToken, sq2
<1>18. regular_sort_queue' = [regular_sort_queue EXCEPT ![n] = sq2]
  BY Zenon DEF AcceptToken, sq2
<1>. HIDE DEF high, next, stillHeld
<1>19. ContentInv'
  <2>1. mcasts \subseteq mcasts'
    BY <1>12
  <2>2. CASE FailToReceive(n)
    <3>1. UNCHANGED <<my_high_delivered, delivered>>
      BY <2>2 DEF FailToReceive
    <3>. QED
      BY ZenonT(30), <1>7, <1>14, <1>15, <1>18, <2>1, <3>1, ContentStays
  <2>3. CASE ForwardToken(n, token, next, sq2, released, high, stillHeld)
    <3>1. PICK d \in 0..MaxSeq :
             /\ messages_deliver_to_app(sq2, released, my_high_delivered[n],
                                        high, d)
             /\ Deliver(n, sq2, my_high_delivered[n], d)
      BY Zenon, <2>3 DEF ForwardToken
    <3>. QED
      BY Zenon, <1>7, <1>14, <1>15, <1>16, <1>18, <2>1, <3>1, ContentStays
  <2>. QED
    BY ZenonT(30), <1>17, <2>2, <2>3
<1>20. CASE FailToReceive(n)
  <2>1. memb_state'[Succ(h)] = "GATHER"
    BY Zenon, <1>5, <1>20 DEF FailToReceive, TypeOK
  <2>2. UNCHANGED <<my_token_seq, orf_token_retransmit, tokens>>
    BY Zenon, <1>20 DEF FailToReceive
  <2>3. RingAt(h)'
    BY ZenonT(30), <1>4, <2>1, <2>2 DEF RingAt
  <2>. QED
    BY Zenon, <1>19, <2>3 DEF RingInv
<1>21. CASE ForwardToken(n, token, next, sq2, released, high, stillHeld)
  <2>1. next \in Token
    <3>1. orf_token_retransmit'[n] = next
      BY Zenon, <1>21 DEF ForwardToken, TypeOK
    <3>. QED
      BY Zenon, <3>1 DEF TypeOK
  <2>2. next.token_seq = token.token_seq + 1 /\ next.seq = token.seq + sent
    BY Zenon DEF next, NextToken
  <2>3. \A m \in mcasts' : m.seq <= next.seq
    <3>. TAKE m \in mcasts'
    <3>1. CASE m \in mcasts
      <4>1. m.seq \in Nat /\ m.seq <= token.seq
        BY SMTT(30), <1>6, <3>1, RingAssumption DEF Seqno
      <4>. QED
        BY <1>2, <1>3, <2>2, <4>1, RingAssumption
    <3>2. CASE m \notin mcasts
      <4>1. PICK s \in numbered : m = [seq |-> s, msg |-> sq2[s]]
        BY <1>12, <3>2
      <4>. QED
        BY SMTT(30), <1>13, <2>2, <4>1
    <3>. QED
      BY Zenon, <3>1, <3>2
  <2>4. /\ my_token_seq' = [my_token_seq EXCEPT ![n] = token.token_seq]
        /\ orf_token_retransmit' = [orf_token_retransmit EXCEPT ![n] = next]
        /\ tokens' \subseteq tokens \cup {<<Succ(n), next>>}
    BY Zenon, <1>21 DEF ForwardToken
  <2>5. RingAt(n)'
    BY Zenon, <1>4, <1>5, <2>1, <2>2, <2>3, <2>4, RingMoves
  <2>. QED
    BY <1>19, <2>5 DEF RingInv
<1>. QED
  BY Zenon, <1>17, <1>20, <1>21

\* message_handler_orf_token keeps one token and one message for each number.
LEMMA TokenHandlerOrder ==
    ASSUME TypeOK, RingInv, ContentInv, NEW n \in Node, NEW token,
           <<n, token>> \in tokens, message_handler_orf_token(n, token), TypeOK'
    PROVE  RingInv' /\ ContentInv'
<1>. DEFINE unchanged == IF token.seq = my_last_seq[n]
                         THEN SmallerOf(my_seq_unchanged[n] + 1,
                                        seqno_unchanged_const + 1)
                         ELSE 0
            held == TokenIsHeld(n, unchanged)
            released == messages_free(n, token.aru)
            sq == Released(regular_sort_queue[n], released)
<1>1. token \in Token /\ token.aru \in 0..MaxSeq
  BY Zenon DEF TypeOK, Token
<1>2. released \in 0..MaxSeq
  BY <1>1, ReleaseType
<1>3. /\ sq \in [Seqno -> Msg \cup {None}]
      /\ \A s \in Seqno : sq[s] # None => sq[s] = regular_sort_queue[n][s]
  BY ZenonT(30), <1>2, ReleasedType DEF TypeOK
<1>4. held \in BOOLEAN
  BY Zenon DEF TokenIsHeld
<1>. HIDE DEF unchanged, held, released, sq
<1>5. memb_state[n] = "OPERATIONAL"
  BY DEF message_handler_orf_token
<1>6. CASE DiscardToken(n, token, sq, held)
  <2>1. /\ regular_sort_queue' = [regular_sort_queue EXCEPT ![n] = sq]
        /\ UNCHANGED <<mcasts, tokens, my_token_seq, orf_token_retransmit,
                       memb_state, my_high_delivered, delivered>>
    BY <1>6 DEF DiscardToken, visitVars, netVars
  <2>2. \A s \in Seqno : sq[s] # None => [seq |-> s, msg |-> sq[s]] \in mcasts'
    BY <1>3, <2>1 DEF ContentInv
  <2>3. \A x, y \in mcasts' : x.seq = y.seq => x = y
    BY <2>1 DEF ContentInv
  <2>4. ContentInv'
    BY Zenon, <1>3, <2>1, <2>2, <2>3, ContentStays
  <2>5. RingInv'
    BY SMTT(30), <2>1, RingStays
  <2>. QED
    BY <2>4, <2>5
<1>7. ASSUME NEW resent \in SUBSET token.rtr, NEW aru \in 0..MaxSeq,
             NEW sent \in 0..Len(QueueInUse(n)),
             AcceptToken(n, token, sq, released, held, resent, sent, aru)
      PROVE  RingInv' /\ ContentInv'
  BY <1>2, <1>3, <1>4, <1>5, <1>7, AcceptOrder
<1>. QED
  BY ZenonT(30), <1>6, <1>7 DEF message_handler_orf_token, unchanged, held, released, sq

\* Every step keeps the ordering invariant.
LEMMA NextOrder == OrderInv /\ [Next]_vars => OrderInv'
<1>. SUFFICES ASSUME OrderInv, [Next]_vars PROVE OrderInv'
  OBVIOUS
<1>1. TypeOK /\ RingInv /\ ContentInv /\ TypeOK'
  BY SMTT(30), NextType DEF OrderInv
<1>2. ASSUME UNCHANGED <<mcasts, regular_sort_queue, delivered, my_high_delivered>>
      PROVE  ContentInv'
  BY <1>1, <1>2 DEF ContentInv
<1>3. CASE UNCHANGED vars
  <2>1. N \in Node
    BY RingAssumption DEF Node
  <2>2. RingInv'
    BY <1>1, <1>3, <2>1, RingStays DEF vars, visitVars, netVars
  <2>. QED
    BY <1>1, <1>2, <1>3, <2>2 DEF OrderInv, vars, sortVars, netVars
<1>4. ASSUME NEW n \in Node,
             \/ totemsrp_mcast(n)
             \/ totemsrp_trans_ack(n)
             \/ token_retransmit(n)
             \/ token_hold_cancel_send(n)
             \/ message_handler_token_hold_cancel(n)
             \/ memb_state_gather_enter(n)
      PROVE  OrderInv'
  <2>1. /\ tokens' \subseteq tokens \cup {<<Succ(n), orf_token_retransmit[n]>>}
        /\ UNCHANGED <<my_token_seq, orf_token_retransmit, mcasts>>
        /\ \/ UNCHANGED memb_state
           \/ memb_state' = [memb_state EXCEPT ![n] = "GATHER"]
    BY Zenon, <1>4 DEF totemsrp_mcast, totemsrp_trans_ack, token_retransmit,
        token_hold_cancel_send, message_handler_token_hold_cancel,
        memb_state_gather_enter, visitVars, netVars
  <2>2. UNCHANGED <<regular_sort_queue, delivered, my_high_delivered>>
    BY Zenon, <1>4 DEF totemsrp_mcast, totemsrp_trans_ack, token_retransmit,
        token_hold_cancel_send, message_handler_token_hold_cancel,
        memb_state_gather_enter, sortVars
  <2>3. RingInv'
    BY <1>1, <2>1, RingStays
  <2>. QED
    BY <1>1, <1>2, <2>1, <2>2, <2>3 DEF OrderInv
<1>5. ASSUME NEW n \in Node, NEW m \in mcasts, message_handler_mcast(n, m)
      PROVE  OrderInv'
  BY <1>1, <1>5, ReceiveOrder DEF OrderInv
<1>6. ASSUME NEW n \in Node, NEW t \in tokens, t[1] = n,
             message_handler_orf_token(n, t[2])
      PROVE  OrderInv'
  <2>1. t = <<n, t[2]>>
    <3>1. t \in Node \X Token
      BY <1>1 DEF TypeOK
    <3>. QED
      BY SMTT(30), <1>6, <3>1
  <2>. QED
    BY <1>1, <1>6, <2>1, TokenHandlerOrder DEF OrderInv
<1>7. CASE Next
  BY <1>4, <1>5, <1>6, <1>7 DEF Next
<1>. QED
  BY <1>3, <1>7

\* The invariant behind agreement: nodes accepted the token in ring order, only
\* the copy the last of them sent is new to its destination, and every sort
\* queue and every message on the wire has the same message for a number.
THEOREM OrderInvariant == Spec => []OrderInv
<1>1. Init => OrderInv
  BY InitType, InitOrder DEF OrderInv
<1>. QED
  BY <1>1, NextOrder, PTL DEF Spec

\* Agreed delivery (messages_deliver_to_app): whatever is lost, repeated or
\* delayed, any two nodes of a ring of any size deliver the same messages in the
\* same order.
THEOREM Agreement == Spec => []AgreedDelivery
<1>1. OrderInv => AgreedDelivery
  <2>. SUFFICES ASSUME OrderInv, NEW m \in Node, NEW n \in Node,
                       NEW i \in DOMAIN delivered[m] \cap DOMAIN delivered[n]
                PROVE  delivered[m][i] = delivered[n][i]
    BY DEF AgreedDelivery
  <2>1. /\ delivered[m] \in Seq(Msg) /\ delivered[n] \in Seq(Msg)
        /\ Len(delivered[m]) = my_high_delivered[m]
        /\ Len(delivered[n]) = my_high_delivered[n]
    BY ZenonT(30) DEF OrderInv, TypeOK, ContentInv
  <2>2. i \in 1..my_high_delivered[m] /\ i \in 1..my_high_delivered[n]
    BY <2>1
  <2>3. /\ [seq |-> i, msg |-> delivered[m][i]] \in mcasts
        /\ [seq |-> i, msg |-> delivered[n][i]] \in mcasts
    BY <2>2 DEF OrderInv, ContentInv
  <2>4. [seq |-> i, msg |-> delivered[m][i]] = [seq |-> i, msg |-> delivered[n][i]]
    BY <2>3 DEF OrderInv, ContentInv
  <2>. QED
    BY <2>4
<1>. QED
  BY <1>1, OrderInvariant, PTL

\* One token: at most one token, for one node, passes the test for retransmitted
\* tokens of message_handler_orf_token, on a ring of any size.
THEOREM OneToken == Spec => []SingleToken
<1>1. OrderInv => SingleToken
  <2>. SUFFICES ASSUME OrderInv, NEW t \in Acceptable, NEW u \in Acceptable
                PROVE  t = u
    BY DEF SingleToken
  <2>1. TypeOK
    BY DEF OrderInv
  <2>2. PICK h \in Node : RingAt(h)
    BY SMTT(30) DEF OrderInv, RingInv
  <2>3. ASSUME NEW v \in Acceptable
        PROVE  v = <<Succ(h), orf_token_retransmit[h]>>
    <3>1. \/ v \in tokens
          \/ \E j \in Node : v = <<Succ(j), orf_token_retransmit[j]>>
      BY DEF Acceptable
    <3>2. v \in Node \X Token /\ v[2].token_seq > my_token_seq[v[1]]
      <4>1. v[2].token_seq > my_token_seq[v[1]]
        BY Zenon DEF Acceptable
      <4>2. tokens \subseteq Node \X Token /\ orf_token_retransmit \in [Node -> Token]
        BY Zenon, <2>1 DEF TypeOK
      <4>. QED
        BY <3>1, <4>1, <4>2, SuccType
    <3>3. v[2].token_seq \in Nat /\ my_token_seq[v[1]] \in Nat
      BY <2>1, <3>2 DEF TypeOK, Token
    <3>4. ~ (v[2].token_seq <= my_token_seq[v[1]])
      BY <3>2, <3>3
    <3>. QED
      BY SMTT(30), <2>2, <3>1, <3>4 DEF RingAt
  <2>. QED
    BY <2>3
<1>. QED
  BY <1>1, OrderInvariant, PTL

============================================================================
