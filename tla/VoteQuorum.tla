----------------------------- MODULE VoteQuorum -----------------------------
(***************************************************************************)
(* The voting of exec/votequorum.c without a quorum device: every node     *)
(* keeps a database of the votes and flags of the others, learnt from      *)
(* nodeinfo messages, and derives from it whether its partition is         *)
(* quorate.                                                                *)
(*                                                                         *)
(* Totem and sync are external.  A ring forms at once at all its members,  *)
(* and every node that is still on a ring delivers a message when it is    *)
(* ordered: a message that a node did not deliver before it left is one    *)
(* that the others ordered after it left.  Messages wait in the queue of   *)
(* the sender, on whatever ring it is, and carry what it knew when it      *)
(* queued them.                                                            *)
(***************************************************************************)
EXTENDS Integers, Sequences, FiniteSets, FiniteSetsExt

CONSTANTS
    Node,           \* node identifiers, positive numbers
    Conf,           \* the configurations (corosync.conf) to consider
    Asked,          \* the numbers of votes that requests ask for
    MaxRings,       \* bound: rings formed
    MaxRestarts,    \* bound: restarts of nodes
    MaxRequests     \* bound: library requests and configuration changes

Tie == {"none", "lowest", "highest", "list"}

NodelistVotes(c) == IF c.nodelist THEN MapThenSumSet(LAMBDA m : c.votes[m], Node) ELSE 0

WaitsForAll(c) == IF c.wait_for_all = "unset" THEN c.two_node ELSE c.wait_for_all = "yes"

\* votequorum_readconfig does not refuse the configuration.
Starts(c) ==
    /\ c.nodelist \/ c.expected_votes # 0
    /\ ~ /\ c.auto_tie_breaker # "none" /\ NodelistVotes(c) % 2 = 1
          /\ ~ WaitsForAll(c) /\ c.last_man_standing

ASSUME VoteAssumption ==
    /\ IsFiniteSet(Node) /\ Node # {} /\ Node \subseteq Nat \ {0}
    /\ \A c \in Conf :
          /\ c.votes \in [Node -> Nat] /\ c.expected_votes \in Nat
          /\ {c.nodelist, c.two_node, c.last_man_standing, c.allow_downscale,
              c.expected_votes_tracking} \subseteq BOOLEAN
          /\ c.wait_for_all \in {"unset", "no", "yes"}
          /\ c.auto_tie_breaker \in Tie /\ c.atb_nodelist \in Seq(Node)
          /\ Starts(c)
    /\ Asked \subseteq Nat
    /\ MaxRings \in Nat /\ MaxRestarts \in Nat /\ MaxRequests \in Nat

VARIABLES
    conf,           \* the configuration that each node has read
    formed,         \* how many rings have formed
    at,             \* the ring a node is on, 0 before its first one
    received,       \* sync.c: who has reached the barrier of this service
    queue,          \* what waits for the token at a node
    vq,             \* the static variables of votequorum.c
    witness,        \* history: nodes that saw all nodes, or met one that had
    restarts, requests

vars == <<conf, formed, at, received, queue, vq, witness, restarts, requests>>

LargerOf(a, b) == IF a < b THEN b ELSE a

----------------------------------------------------------------------------
(***************************************************************************)
(* The quorum calculation.  Operators take the node and its state, and     *)
(* return the new state.                                                   *)
(***************************************************************************)

Members(s) == {m \in Node : s.nodes[m].state = "MEMBER"}

TotalVotes(s) == MapThenSumSet(LAMBDA m : s.nodes[m].votes, Members(s))

\* Mutant: half of the votes is taken for a majority.
calculate_quorum_Half(s, allow_decrease, max_expected) ==
    LET highest_expected == Max({0} \cup {s.nodes[m].expected_votes : m \in Members(s)})
        newquorum == (LargerOf(highest_expected, TotalVotes(s)) + 1) \div 2
    IN  IF allow_decrease THEN newquorum ELSE LargerOf(s.quorum, newquorum)

calculate_quorum(s, allow_decrease, max_expected) ==
    LET most == IF s.allow_downscale /\ allow_decrease /\ max_expected > 0
                THEN LargerOf(s.ev_barrier, max_expected) ELSE max_expected
        highest_expected ==
            IF most > 0 THEN most
            ELSE Max({0} \cup {s.nodes[m].expected_votes : m \in Members(s)})
        newquorum == LargerOf((highest_expected + 2) \div 2, (TotalVotes(s) + 2) \div 2)
    IN  IF s.two_node /\ Cardinality(Members(s)) <= 2 THEN 1
        ELSE IF allow_decrease THEN newquorum
        ELSE LargerOf(s.quorum, newquorum)

update_node_expected_votes(s, new_expected_votes) ==
    IF new_expected_votes = 0 THEN s
    ELSE [s EXCEPT !.nodes = [m \in Node |->
              IF m \in Members(s)
              THEN [s.nodes[m] EXCEPT !.expected_votes = new_expected_votes]
              ELSE s.nodes[m]]]

update_wait_for_all_status(n, s, wfa) ==
    [s EXCEPT !.wait_for_all_status = wfa, !.nodes[n].wfastatus = wfa]

\* "The algorithm for a list of tie-breaker nodes": none of the nodes before
\* the first one that is here was in the previous partition.
check_auto_tie_breaker(s) ==
    CASE s.auto_tie_breaker = "none"    -> FALSE
      [] s.auto_tie_breaker = "lowest"  -> s.lowest_node_id \in Members(s)
      [] s.auto_tie_breaker = "highest" -> s.highest_node_id \in Members(s)
      [] s.auto_tie_breaker = "list"    ->
            \E i \in DOMAIN s.atb_nodelist :
                /\ s.atb_nodelist[i] \in s.quorum_members
                /\ \A j \in 1..(i - 1) :
                      s.atb_nodelist[j] \notin s.quorum_members
                                               \cup s.previous_quorum_members

TieBroken(n, s, total_votes) ==
    /\ total_votes = s.nodes[n].expected_votes \div 2
    /\ Cardinality(s.previous_quorum_members) - Cardinality(s.quorum_members) < s.quorum
    /\ check_auto_tie_breaker(s)

\* Mutant: a majority of the nodes is taken for all of them.
Waits_Majority(n, s, total_votes) ==
    s.wait_for_all /\ s.wait_for_all_status /\ total_votes < s.quorum

Waits(n, s, total_votes) ==
    s.wait_for_all /\ s.wait_for_all_status /\ total_votes # s.nodes[n].expected_votes

are_we_quorate(n, s, total_votes) ==
    LET enough == s.quorum <= total_votes
        seen == IF enough
                THEN [s EXCEPT !.lowest_node_id = Min(Members(s) \cup {n}),
                               !.highest_node_id = Max(Members(s) \cup {n})]
                ELSE s
        quorate == enough \/ TieBroken(n, seen, total_votes)
        set == [seen EXCEPT !.cluster_is_quorate = quorate,
                            !.nodes[n].quorate = quorate]
    IN  IF Waits(n, s, total_votes) THEN s
        ELSE IF s.wait_for_all THEN update_wait_for_all_status(n, set, ~ quorate)
        ELSE set

\* The expected votes grow to the votes there are; the result of
\* calculate_quorum is kept in a uint8_t.
recalculate_quorum(n, s, allow_decrease, by_current_nodes) ==
    LET cluster_members == IF by_current_nodes THEN Cardinality(Members(s)) ELSE 0
        s1 == [s EXCEPT !.nodes[n].expected_votes = LargerOf(@, TotalVotes(s))]
        s2 == [s1 EXCEPT !.ev_tracking_barrier =
                   IF s.ev_tracking THEN LargerOf(@, s1.nodes[n].expected_votes) ELSE @]
        s3 == [s2 EXCEPT !.quorum =
                   calculate_quorum(s2, allow_decrease, cluster_members) % 256]
    IN  are_we_quorate(n, update_node_expected_votes(s3, cluster_members), TotalVotes(s))

----------------------------------------------------------------------------
(***************************************************************************)
(* Configuration and start.                                                *)
(***************************************************************************)

\* What is read at startup and at runtime alike.  A quorum.expected_votes is
\* superseded by the tracked number, also when that is 0.
votequorum_readconfig(n, s, c, runtime) ==
    LET wfa == WaitsForAll(c)
        expected == IF s.ev_tracking THEN s.ev_tracking_barrier ELSE c.expected_votes
        us == [s.nodes[n] EXCEPT
                  !.votes = c.votes[n],
                  !.expected_votes = IF expected # 0 THEN expected
                                     ELSE IF c.nodelist THEN NodelistVotes(c) ELSE @]
        t == [s EXCEPT
                !.wait_for_all = wfa,
                !.two_node = c.two_node /\ c.auto_tie_breaker = "none",
                !.auto_tie_breaker = IF NodelistVotes(c) % 2 = 1 /\ ~ wfa
                                     THEN "none" ELSE c.auto_tie_breaker,
                !.nodes[n] = us, !.ev_barrier = us.expected_votes]
    IN  IF wfa THEN IF runtime THEN t ELSE update_wait_for_all_status(n, t, TRUE)
        ELSE IF c.wait_for_all = "unset" /\ s.wait_for_all_status
             THEN update_wait_for_all_status(n, t, FALSE)
        ELSE t

Unknown ==
    [state |-> "UNKNOWN", votes |-> 0, expected_votes |-> 0, quorate |-> FALSE,
     wfastatus |-> FALSE, first |-> FALSE, leaving |-> FALSE]

\* load_ev_tracking_barrier closes the file that it read or created, so that the
\* writes of update_ev_tracking_barrier fail: the file always holds 0.
load_ev_tracking_barrier == 0

votequorum_exec_init_fn(n, c) ==
    LET blank ==
          [nodes |-> [m \in Node |->
               IF m = n THEN [Unknown EXCEPT !.state = "MEMBER", !.votes = 1, !.first = TRUE]
               ELSE Unknown],
           quorum |-> 0, cluster_is_quorate |-> FALSE,
           quorum_members |-> {}, previous_quorum_members |-> {},
           two_node |-> FALSE, wait_for_all |-> FALSE, wait_for_all_status |-> FALSE,
           auto_tie_breaker |-> "none", atb_nodelist |-> c.atb_nodelist,
           lowest_node_id |-> -1, highest_node_id |-> -1,
           last_man_standing |-> c.last_man_standing, last_man_standing_timer_set |-> FALSE,
           allow_downscale |-> c.allow_downscale, ev_barrier |-> 0,
           ev_tracking |-> c.expected_votes_tracking \/ c.allow_downscale,
           ev_tracking_barrier |-> load_ev_tracking_barrier,
           sync_in_progress |-> FALSE, sync_nodeinfo_sent |-> FALSE]
    IN  recalculate_quorum(n, votequorum_readconfig(n, blank, c, FALSE), FALSE, FALSE)

NodeInfo(n, s) ==
    [type |-> "nodeinfo", nodeid |-> n, votes |-> s.nodes[n].votes,
     expected_votes |-> s.nodes[n].expected_votes, quorate |-> s.nodes[n].quorate,
     wfastatus |-> s.nodes[n].wfastatus, first |-> s.nodes[n].first,
     leaving |-> s.nodes[n].leaving]

Reconfigure(param, nodeid, value) ==
    [type |-> "reconfigure", param |-> param, nodeid |-> nodeid, value |-> value]

Init ==
    /\ conf \in {[n \in Node |-> c] : c \in Conf}
    /\ formed = 0 /\ restarts = 0 /\ requests = 0
    /\ at = [n \in Node |-> 0] /\ received = [n \in Node |-> {}]
    /\ vq = [n \in Node |-> votequorum_exec_init_fn(n, conf[n])]
    /\ queue = [n \in Node |-> <<NodeInfo(n, vq[n])>>]
    /\ witness = {}

Restart(n) ==
    /\ at[n] # 0 /\ restarts < MaxRestarts
    /\ restarts' = restarts + 1
    /\ at' = [at EXCEPT ![n] = 0] /\ received' = [received EXCEPT ![n] = {}]
    /\ vq' = [vq EXCEPT ![n] = votequorum_exec_init_fn(n, conf[n])]
    /\ queue' = [queue EXCEPT ![n] = <<NodeInfo(n, vq'[n])>>]
    /\ witness' = witness \ {n}
    /\ UNCHANGED <<conf, formed, requests>>

Send(n, msgs) == queue' = [queue EXCEPT ![n] = @ \o msgs]

\* With allow_downscale a node that stops says so.
votequorum_exec_exit_fn(n) ==
    /\ vq[n].allow_downscale /\ ~ vq[n].nodes[n].leaving
    /\ vq' = [vq EXCEPT ![n].nodes[n].leaving = TRUE]
    /\ Send(n, <<NodeInfo(n, vq'[n])>>)
    /\ UNCHANGED <<conf, formed, at, received, witness, restarts, requests>>

----------------------------------------------------------------------------
(***************************************************************************)
(* Synchronization.                                                        *)
(***************************************************************************)

\* Mutant: nodes that left keep their votes.
votequorum_sync_init_KeepLeft(n, s, member_list) ==
    [s EXCEPT !.sync_in_progress = TRUE, !.sync_nodeinfo_sent = FALSE,
              !.nodes[n].first = @ /\ Cardinality(member_list) = 1,
              !.previous_quorum_members = s.quorum_members,
              !.quorum_members = member_list]

votequorum_sync_init(n, s, member_list) ==
    LET left == s.quorum_members \ member_list
        t == [s EXCEPT
                !.sync_in_progress = TRUE, !.sync_nodeinfo_sent = FALSE,
                !.nodes = [m \in Node |->
                    IF m \in left /\ s.nodes[m].state # "UNKNOWN"
                    THEN [s.nodes[m] EXCEPT !.state = "DEAD"]
                    ELSE [s.nodes[m] EXCEPT
                            !.first = @ /\ (m # n \/ Cardinality(member_list) = 1)]]]
        starts_timer ==
            /\ s.last_man_standing
            /\ \/ Cardinality(member_list) >= s.quorum /\ left # {}
               \/ /\ Cardinality(member_list) <= s.quorum
                  /\ s.auto_tie_breaker # "none"
                  /\ s.lowest_node_id \in Members(t)
    IN  [t EXCEPT !.last_man_standing_timer_set = @ \/ starts_timer,
                  !.previous_quorum_members = s.quorum_members,
                  !.quorum_members = member_list]

\* Mutant: the barriers of the last ring are not forgotten.
FormRing_KeepReceived(S) ==
    /\ formed < MaxRings /\ S # {}
    /\ formed' = formed + 1
    /\ at' = [n \in Node |-> IF n \in S THEN formed + 1 ELSE at[n]]
    /\ vq' = [n \in Node |->
                 IF n \in S THEN votequorum_sync_init(n, vq[n], S) ELSE vq[n]]
    /\ UNCHANGED <<conf, received, queue, witness, restarts, requests>>

FormRing(S) ==
    /\ formed < MaxRings /\ S # {}
    /\ formed' = formed + 1
    /\ at' = [n \in Node |-> IF n \in S THEN formed + 1 ELSE at[n]]
    /\ received' = [n \in Node |-> IF n \in S THEN {} ELSE received[n]]
    /\ vq' = [n \in Node |->
                 IF n \in S THEN votequorum_sync_init(n, vq[n], S) ELSE vq[n]]
    /\ witness' = IF S = Node \/ S \cap witness # {} THEN witness \cup S ELSE witness
    /\ UNCHANGED <<conf, queue, restarts, requests>>

\* schedwrk calls votequorum_sync_process, then sync.c sends its barrier.
votequorum_sync_process(n) ==
    /\ vq[n].sync_in_progress /\ ~ vq[n].sync_nodeinfo_sent
    /\ vq' = [vq EXCEPT ![n].sync_nodeinfo_sent = TRUE]
    /\ Send(n, <<NodeInfo(n, vq[n]), [type |-> "barrier", nodeid |-> n, ring_id |-> at[n]]>>)
    /\ UNCHANGED <<conf, formed, at, received, witness, restarts, requests>>

votequorum_sync_activate(n, s) ==
    [recalculate_quorum(n, s, FALSE, FALSE) EXCEPT !.sync_in_progress = FALSE]

\* The window of last_man_standing is over.
votequorum_last_man_standing_timer_fn(n) ==
    LET s == [vq[n] EXCEPT !.last_man_standing_timer_set = FALSE]
    IN  /\ vq[n].last_man_standing_timer_set
        /\ vq' = [vq EXCEPT ![n] = IF s.cluster_is_quorate
                                   THEN recalculate_quorum(n, s, TRUE, TRUE) ELSE s]
        /\ UNCHANGED <<conf, formed, at, received, queue, witness, restarts, requests>>

----------------------------------------------------------------------------
(***************************************************************************)
(* Messages.                                                               *)
(***************************************************************************)

\* The own nodeinfo is handled as any other one: the flags become those of the
\* time when it was queued.
message_handler_req_exec_votequorum_nodeinfo(n, s, m) ==
    LET old == s.nodes[m.nodeid]
        adopts == ~ s.cluster_is_quorate /\ m.quorate
        known == [old EXCEPT !.state = IF m.leaving THEN "LEAVING" ELSE "MEMBER",
                             !.votes = m.votes, !.quorate = m.quorate,
                             !.wfastatus = m.wfastatus, !.first = m.first,
                             !.leaving = m.leaving]
        s1 == [s EXCEPT !.nodes[m.nodeid] = known]
        s2 == IF adopts THEN [s1 EXCEPT !.nodes[n].expected_votes = m.expected_votes]
              ELSE s1
        s3 == [s2 EXCEPT
                 !.nodes[m.nodeid].expected_votes =
                     IF m.quorate \/ s.ev_tracking THEN m.expected_votes
                     ELSE s2.nodes[n].expected_votes,
                 !.last_man_standing = @ /\ m.votes <= 1,
                 !.last_man_standing_timer_set =
                     @ /\ ~ (s.last_man_standing /\ m.votes > 1)]
        s4 == IF m.nodeid = n \/ m.first \/ s3.nodes[m.nodeid] # old
              THEN recalculate_quorum(n, s3, m.leaving \/ adopts, m.leaving)
              ELSE s3
    IN  IF /\ s.wait_for_all
           /\ ~ s4.nodes[m.nodeid].wfastatus /\ s4.nodes[m.nodeid].quorate
        THEN update_wait_for_all_status(n, s4, FALSE) ELSE s4

message_handler_req_exec_votequorum_reconfigure(n, s, m) ==
    CASE m.param = "EXPECTED_VOTES" ->
           LET s1 == [update_node_expected_votes(s, m.value) EXCEPT !.ev_barrier = m.value]
               s2 == [s1 EXCEPT !.nodes[n].expected_votes =
                          IF s.ev_tracking THEN LargerOf(@, s.ev_tracking_barrier) ELSE @]
           IN  recalculate_quorum(n, s2, TRUE, FALSE)
      [] m.param = "NODE_VOTES" ->
           IF s.nodes[m.nodeid].state = "UNKNOWN" THEN s
           ELSE recalculate_quorum(n, [s EXCEPT !.nodes[m.nodeid].votes = m.value],
                                   TRUE, FALSE)
      [] m.param = "CANCEL_WFA" ->
           recalculate_quorum(n, update_wait_for_all_status(n, s, FALSE), FALSE, FALSE)

\* The token comes to n: the head of its queue is delivered on the ring.
Deliver(n) ==
    LET m == Head(queue[n])
        On == {i \in Node : at[i] = at[n]}
        got(i) == received[i] \cup {n}
    IN  /\ at[n] # 0 /\ queue[n] # <<>>
        /\ queue' = [queue EXCEPT ![n] = Tail(@)]
        /\ IF m.type = "barrier"
           THEN /\ received' = [i \in Node |->
                       IF i \in On /\ m.ring_id = at[i] THEN got(i) ELSE received[i]]
                /\ vq' = [i \in Node |->
                       IF i \in On /\ m.ring_id = at[i] /\ vq[i].quorum_members = got(i)
                       THEN votequorum_sync_activate(i, vq[i]) ELSE vq[i]]
           ELSE /\ vq' = [i \in Node |->
                       IF i \notin On THEN vq[i]
                       ELSE IF m.type = "nodeinfo"
                       THEN message_handler_req_exec_votequorum_nodeinfo(i, vq[i], m)
                       ELSE message_handler_req_exec_votequorum_reconfigure(i, vq[i], m)]
                /\ UNCHANGED received
        /\ UNCHANGED <<conf, formed, at, witness, restarts, requests>>

----------------------------------------------------------------------------
(***************************************************************************)
(* Requests of the administrator, through the library or the configuration *)
(* map.  They are served during synchronization too (ipc_glue.c).          *)
(***************************************************************************)

Request(n, s, msgs) ==
    /\ at[n] # 0 /\ requests < MaxRequests
    /\ requests' = requests + 1
    /\ vq' = [vq EXCEPT ![n] = s]
    /\ Send(n, msgs)
    /\ UNCHANGED <<formed, at, received, witness, restarts>>

\* Refused requests change nothing.
message_handler_req_lib_votequorum_setexpected(n, v) ==
    LET s == vq[n]
        newquorum == calculate_quorum([s EXCEPT !.allow_downscale = FALSE], TRUE, v)
    IN  /\ v >= TotalVotes(s)
        /\ s.cluster_is_quorate => newquorum <= TotalVotes(s)
        /\ Request(n, update_node_expected_votes(s, v),
                   <<Reconfigure("EXPECTED_VOTES", n, v)>>)
        /\ UNCHANGED conf

message_handler_req_lib_votequorum_setvotes(n, nodeid, v) ==
    LET s == [vq[n] EXCEPT !.nodes[nodeid].votes = v]
        newquorum == calculate_quorum(s, TRUE, 0)
    IN  /\ s.nodes[nodeid].state # "UNKNOWN"
        /\ newquorum >= TotalVotes(s) \div 2 /\ newquorum <= TotalVotes(s)
        /\ Request(n, s, <<Reconfigure("NODE_VOTES", nodeid, v)>>)
        /\ UNCHANGED conf

cancel_wait_for_all(n) ==
    /\ Request(n, vq[n], <<Reconfigure("CANCEL_WFA", n, 0)>>)
    /\ UNCHANGED conf

\* The rest of the configuration is read only at startup.
SameAtRuntime(c, d) ==
    c = [d EXCEPT !.votes = c.votes, !.expected_votes = c.expected_votes,
                  !.two_node = c.two_node]

votequorum_refresh_config(n) ==
    \E c \in Conf :
        LET s == votequorum_readconfig(n, vq[n], c, TRUE)
            us == s.nodes[n]
            old == vq[n].nodes[n]
        IN  /\ c # conf[n] /\ SameAtRuntime(c, conf[n])
            /\ conf' = [conf EXCEPT ![n] = c]
            /\ Request(n, s,
                  <<NodeInfo(n, s)>>
                  \o (IF us.votes # old.votes
                      THEN <<Reconfigure("NODE_VOTES", n, us.votes)>> ELSE <<>>)
                  \o (IF us.expected_votes # old.expected_votes
                      THEN <<Reconfigure("EXPECTED_VOTES", n, us.expected_votes)>>
                      ELSE <<>>))

Next ==
    \/ \E S \in SUBSET Node : FormRing(S)
    \/ \E n \in Node :
          \/ Restart(n)
          \/ Deliver(n)
          \/ votequorum_sync_process(n)
          \/ votequorum_last_man_standing_timer_fn(n)
          \/ votequorum_exec_exit_fn(n)
          \/ cancel_wait_for_all(n)
          \/ votequorum_refresh_config(n)
          \/ \E v \in Asked :
                \/ message_handler_req_lib_votequorum_setexpected(n, v)
                \/ \E m \in Node : message_handler_req_lib_votequorum_setvotes(n, m, v)

Spec == Init /\ [][Next]_vars

----------------------------------------------------------------------------
(***************************************************************************)
(* Properties.                                                             *)
(***************************************************************************)

NodeState == {"UNKNOWN", "MEMBER", "DEAD", "LEAVING"}

\* The variables have their types; the quorum is a uint8_t (votequorum.c).
TypeOK ==
    /\ conf \in [Node -> Conf] /\ formed \in 0..MaxRings /\ at \in [Node -> 0..formed]
    /\ received \in [Node -> SUBSET Node] /\ witness \in SUBSET Node
    /\ \A n \in Node : LET s == vq[n] IN
          /\ s.quorum \in 0..255 /\ s.quorum_members \in SUBSET Node
          /\ s.cluster_is_quorate \in BOOLEAN /\ s.wait_for_all_status \in BOOLEAN
          /\ received[n] \subseteq s.quorum_members
          /\ \A m \in Node : LET i == s.nodes[m] IN
                /\ i.state \in NodeState
                /\ i.votes \in Nat /\ i.expected_votes \in Nat

\* The node counts itself in a quorate partition, and synchronization is over.
Quorate(n) == at[n] # 0 /\ vq[n].cluster_is_quorate /\ ~ vq[n].sync_in_progress

\* No split brain: two partitions without a common node are never both quorate
\* (are_we_quorate, with what sync_init and the nodeinfo handler left behind).
NoSplitBrain ==
    \A m, n \in Node : Quorate(m) /\ Quorate(n) =>
        vq[m].quorum_members \cap vq[n].quorum_members # {}

\* The members of n's ring are on it and nothing waits for delivery.
Settled(n) ==
    /\ at[n] # 0 /\ ~ vq[n].sync_in_progress
    /\ \A m \in vq[n].quorum_members : at[m] = at[n] /\ queue[m] = <<>>

\* Once a ring has settled its members agree on whether they are quorate,
\* although each decided on flags that the others sent before they knew the ring.
QuorateAgreed ==
    \A m, n \in Node : Settled(n) /\ at[m] = at[n] =>
        vq[m].cluster_is_quorate = vq[n].cluster_is_quorate

\* Once a ring has settled the node databases of its members agree: they count
\* the same nodes, all of the ring, with the same votes, whatever requests were
\* made during synchronization and on whichever ring their messages came out.
VotesAgreed ==
    \A m, n \in Node : Settled(n) /\ at[m] = at[n] =>
        /\ Members(vq[m]) = Members(vq[n])
        /\ Members(vq[n]) \subseteq vq[n].quorum_members
        /\ \A i \in Members(vq[n]) : vq[m].nodes[i].votes = vq[n].nodes[i].votes

\* With wait_for_all and no request of the administrator a node is quorate only
\* if, since it started, it was on a ring with all nodes or with a node that
\* had been (are_we_quorate, and the status that the nodeinfo handler clears).
WaitForAll ==
    requests = 0 =>
        \A n \in Node : vq[n].wait_for_all /\ Quorate(n) => n \in witness
=============================================================================
