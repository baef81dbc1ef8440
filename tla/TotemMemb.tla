----------------------------- MODULE TotemMemb -----------------------------
(***************************************************************************)
(* The membership protocol of totemsrp (exec/totemsrp.c): how the nodes    *)
(* leave a ring (GATHER), agree on who is on the next one (join messages), *)
(* pass a commit token around it (COMMIT), take the new ring's token       *)
(* around it (RECOVERY) and install it (OPERATIONAL); with crashes,        *)
(* restarts from the stored ring sequence number, and leaves.              *)
(*                                                                         *)
(* What the rings transport is left to TotemRing and TotemRecovery: here   *)
(* no message waits to be recovered, so retrans_flg is 0 and               *)
(* my_install_seq is SEQNO_START_MSG.                                      *)
(*                                                                         *)
(* A handler is a function from the state of a node to its next state,     *)
(* whose field out collects what the handler sends.  The network keeps     *)
(* everything that was ever sent: it loses, delays, repeats and reorders.  *)
(* Retransmission of a token is its being received again.                  *)
(***************************************************************************)
EXTENDS Integers, Sequences, FiniteSets, FiniteSetsExt

CONSTANTS
    Node,               \* node identifiers, positive numbers
    FlgCount,           \* visits of a token without retrans_flg before a
                        \* node counts rotations (3)
    Rotations,          \* rotations before it installs the ring (2)
    CrashWindows,       \* where inside memb_state_commit_enter a node may
                        \* crash: a subset of {"sent", "truncated"}
    MaxRingSeq,         \* bound: ring sequence numbers
    MaxTokenSeq,        \* bound: token sequence numbers
    MaxStarts           \* bound: starts of one node

ASSUME MembAssumption ==
    /\ Node \subseteq Nat \ {0} /\ IsFiniteSet(Node) /\ Node # {}
    /\ FlgCount \in Nat \ {0} /\ Rotations \in Nat \ {0}
    /\ CrashWindows \subseteq {"sent", "truncated"}
    /\ MaxRingSeq \in Nat /\ MaxTokenSeq \in Nat /\ MaxStarts \in Nat

VARIABLES
    node,               \* the struct totemsrp_instance of each node
    disk,               \* the number in the file ringid_<nodeid>
    net,                \* every message ever sent
    starts,             \* how often each node was started
    installed,          \* history: the rings each node installed
    recovered           \* history: <<n, ring>> if n entered RECOVERY on ring

vars == <<node, disk, net, starts, installed, recovered>>

RingId == [rep : Node \cup {0}, seq : 0..MaxRingSeq]
NoRing == [rep |-> 0, seq |-> 0]

\* memb_list[i] is the previous ring of the i-th lowest member.
CommitToken(addr) ==
    [ring_id : RingId, addr : {addr}, memb_index : 0..(Cardinality(addr) + 1),
     memb_list : [0..(Cardinality(addr) - 1) -> RingId]]
NoCommit == [ring_id |-> NoRing, addr |-> {}, memb_index |-> 0,
             memb_list |-> <<>>]

\* A process that is not running; of its state only the file is left.
Down ==
    [up |-> FALSE, memb_state |-> "OPERATIONAL", my_ring_id |-> NoRing,
     my_old_ring_id |-> NoRing, old_ring_state_saved |-> FALSE,
     token_ring_id_seq |-> 0, my_proc_list |-> {}, my_failed_list |-> {},
     consensus_list |-> {}, my_memb_list |-> {}, my_new_memb_list |-> {},
     my_trans_memb_list |-> {}, commit_token |-> NoCommit,
     token_target |-> 0, originated_orf_token |-> FALSE,
     failed_to_recv |-> FALSE, my_retrans_flg_count |-> 0,
     my_rotation_counter |-> 0, my_token_seq |-> 0, token_timer |-> FALSE,
     out |-> {}]

Init ==
    /\ node = [n \in Node |-> Down]
    /\ disk = [n \in Node |-> 0]
    /\ net = {}
    /\ starts = [n \in Node |-> 0]
    /\ installed = [n \in Node |-> <<>>]
    /\ recovered = {}

----------------------------------------------------------------------------
(***************************************************************************)
(* The steps that handlers are made of.                                    *)
(***************************************************************************)

Send(s, m) == [s EXCEPT !.out = @ \cup {m}]

memb_join_message_send(n, s) ==
    Send(s, [type |-> "join", from |-> n, leave |-> FALSE,
             ring_seq |-> s.my_ring_id.seq,
             proc_list |-> s.my_proc_list, failed_list |-> s.my_failed_list])

\* token_timer is the token timeout; in GATHER the consensus timeout runs
\* while it does not.
memb_state_gather_enter(n, s) ==
    memb_join_message_send(n,
        [s EXCEPT !.my_proc_list = @ \cup {n},
                  !.originated_orf_token = FALSE,
                  !.token_timer = FALSE,
                  !.consensus_list = {n},
                  !.memb_state = "GATHER"])

token_memb(s) == s.my_proc_list \ s.my_failed_list

memb_consensus_agreed(s) == token_memb(s) \subseteq s.consensus_list

memb_lowest_in_config(n, s) == n = Min(token_memb(s))

\* Mutant: the failed nodes are listed, without an entry.
memb_state_commit_token_create_WithFailed(n, s) ==
    [s EXCEPT !.commit_token =
        [ring_id    |-> [rep |-> n, seq |-> s.token_ring_id_seq + 4],
         addr       |-> s.my_proc_list,
         memb_index |-> 0,
         memb_list  |-> [i \in 0..(Cardinality(token_memb(s)) - 1) |-> NoRing]]]

\* Mutant: the next number after the node's own ring, not after the highest heard of.
memb_state_commit_token_create_OwnSeq(n, s) ==
    [s EXCEPT !.commit_token =
        [ring_id    |-> [rep |-> n, seq |-> s.my_ring_id.seq],
         addr       |-> token_memb(s),
         memb_index |-> 0,
         memb_list  |-> [i \in 0..(Cardinality(token_memb(s)) - 1) |-> NoRing]]]

memb_state_commit_token_create(n, s) ==
    [s EXCEPT !.commit_token =
        [ring_id    |-> [rep |-> n, seq |-> s.token_ring_id_seq + 4],
         addr       |-> token_memb(s),
         memb_index |-> 0,
         memb_list  |-> [i \in 0..(Cardinality(token_memb(s)) - 1) |-> NoRing]]]

\* The i-th lowest member, and the place of a member.
Place(addr, m) == Cardinality({a \in addr : a < m})
Member(addr, i) == CHOOSE m \in addr : Place(addr, m) = i

\* Mutant: the ring of an abandoned COMMIT is saved over the old one.
old_ring_state_save_Always(s) ==
    [s EXCEPT !.old_ring_state_saved = TRUE, !.my_old_ring_id = s.my_ring_id]

old_ring_state_save(s) ==
    IF s.old_ring_state_saved THEN s
    ELSE [s EXCEPT !.old_ring_state_saved = TRUE,
                   !.my_old_ring_id = s.my_ring_id]

\* The node enters its previous ring in the token.
memb_state_commit_token_update(s) ==
    LET c == s.commit_token
    IN  [s EXCEPT
            !.my_new_memb_list = c.addr,
            !.commit_token.memb_list =
                [i \in DOMAIN c.memb_list |->
                    IF i = c.memb_index THEN s.my_old_ring_id ELSE c.memb_list[i]],
            !.commit_token.memb_index = c.memb_index + 1]

\* Setting the target of the token calls back target_set_completed, which sends
\* the commit token.
memb_state_commit_token_target_set(n, s) ==
    LET c      == s.commit_token
        target == Member(c.addr, c.memb_index % Cardinality(c.addr))
    IN  Send([s EXCEPT !.token_target = target],
             [type |-> "commit", from |-> n, to |-> target, token |-> c])

memb_state_commit_enter(n, s) ==
    LET t == memb_state_commit_token_target_set(n,
                 memb_state_commit_token_update(old_ring_state_save(s)))
    IN  [t EXCEPT !.my_ring_id = s.commit_token.ring_id,
                  !.token_ring_id_seq = s.commit_token.ring_id.seq,
                  !.token_timer = TRUE,
                  !.memb_state = "COMMIT"]

\* The transitional members: those of the old ring whose entry in the commit
\* token names the same old ring.
memb_set_and_with_ring_id(s, c) ==
    {m \in s.my_memb_list \cap s.my_new_memb_list :
        c.memb_list[Place(s.my_new_memb_list, m)] = s.my_old_ring_id}

memb_state_recovery_enter(n, s, c) ==
    Send([s EXCEPT !.my_token_seq = 0,
                   !.my_trans_memb_list = memb_set_and_with_ring_id(s, c),
                   !.token_timer = TRUE,
                   !.memb_state = "RECOVERY"],
         [type |-> "commit", from |-> n, to |-> s.token_target, token |-> c])

memb_state_operational_enter(s) ==
    [s EXCEPT !.originated_orf_token = FALSE,
              !.consensus_list = {},
              !.old_ring_state_saved = FALSE,
              !.my_memb_list = s.my_new_memb_list,
              !.my_proc_list = s.my_new_memb_list,
              !.my_failed_list = {},
              !.my_old_ring_id = s.my_ring_id,
              !.memb_state = "OPERATIONAL"]

memb_state_consensus_timeout_expired(n, s) ==
    IF memb_consensus_agreed(s)
    THEN [s EXCEPT !.consensus_list = {n}, !.token_timer = TRUE]
    ELSE memb_state_gather_enter(n,
             [s EXCEPT !.my_failed_list =
                           @ \cup (s.my_proc_list \ s.consensus_list)])

\* The lists of a join message become part of the node's own: a node that holds
\* this one for failed is failed in turn, and what a member of the current ring
\* holds for failed is.
Merged(n, s, j) ==
    [s EXCEPT
        !.my_proc_list = @ \cup j.proc_list,
        !.my_failed_list = @ \cup
            (IF n \in j.failed_list THEN {j.from}
             ELSE IF j.from \in s.my_memb_list THEN j.failed_list
             ELSE {})]

\* The label out of memb_join_process.
JoinOut(n, s) ==
    IF s.memb_state = "OPERATIONAL" THEN memb_state_gather_enter(n, s) ELSE s

memb_join_process(n, s, j) ==
    LET t == IF j.leave THEN s
             ELSE [s EXCEPT !.consensus_list = @ \cup {j.from}]
        alone == [t EXCEPT !.failed_to_recv = FALSE, !.my_proc_list = {n},
                           !.my_failed_list = {}]
    IN  IF j.proc_list = s.my_proc_list /\ j.failed_list = s.my_failed_list
        THEN IF memb_consensus_agreed(t) /\ t.failed_to_recv
             THEN memb_state_commit_enter(n, memb_state_commit_token_create(n, alone))
             ELSE IF memb_consensus_agreed(t) /\ memb_lowest_in_config(n, t)
             THEN memb_state_commit_enter(n, memb_state_commit_token_create(n, t))
             ELSE JoinOut(n, t)
        ELSE IF \/ /\ j.proc_list \subseteq s.my_proc_list
                   /\ j.failed_list \subseteq s.my_failed_list
                \/ j.from \in s.my_failed_list
        THEN JoinOut(n, s)
        ELSE memb_state_gather_enter(n, Merged(n, s, j))

----------------------------------------------------------------------------
(***************************************************************************)
(* The handlers.                                                           *)
(***************************************************************************)

\* A node's own messages come back over its local loop, in order and at once.
\* Those it has not handled yet are gone when the process ends.
Looped(n) ==
    {m \in net : m.type \in {"commit", "orf"} /\ m.from = n /\ m.to = n}

\* Mutant: the sequence number is not stored.
Finish_NotStored(n, s) ==
    LET committed == s.my_ring_id # node[n].my_ring_id
        sent == {m \in s.out : m.type = "commit" /\ m.to # n}
    IN  /\ s # node[n] /\ s.my_ring_id.seq <= MaxRingSeq
        /\ UNCHANGED starts
        /\ \/ /\ node' = [node EXCEPT ![n] = [s EXCEPT !.out = {}]]
              /\ net' = net \cup s.out
              /\ UNCHANGED disk
              /\ installed' =
                    IF /\ node[n].memb_state = "RECOVERY"
                       /\ s.memb_state = "OPERATIONAL"
                    THEN [installed EXCEPT ![n] =
                            Append(@, [ring_id |-> s.my_ring_id,
                                       memb |-> s.my_memb_list,
                                       trans |-> s.my_trans_memb_list])]
                    ELSE installed
              /\ recovered' = IF s.memb_state = "RECOVERY"
                              THEN recovered \cup {<<n, s.my_ring_id>>}
                              ELSE recovered
           \/ /\ committed /\ "sent" \in CrashWindows
              /\ node' = [node EXCEPT ![n] = Down]
              /\ net' = (net \ Looped(n)) \cup sent
              /\ UNCHANGED <<disk, installed, recovered>>
           \/ /\ committed /\ "truncated" \in CrashWindows
              /\ node' = [node EXCEPT ![n] = Down]
              /\ net' = (net \ Looped(n)) \cup sent
              /\ disk' = [disk EXCEPT ![n] = 0]
              /\ UNCHANGED <<installed, recovered>>

\* A handler leaves node n in state s.  memb_state_commit_enter, the one place
\* where my_ring_id changes, also stores the new ring sequence number, after
\* the commit token was sent: a node may crash in between, or while the file is
\* truncated and not yet written.  A handler that changes nothing is no step.
Finish(n, s) ==
    LET committed == s.my_ring_id # node[n].my_ring_id
        sent == {m \in s.out : m.type = "commit" /\ m.to # n}
    IN  /\ s # node[n] /\ s.my_ring_id.seq <= MaxRingSeq
        /\ UNCHANGED starts
        /\ \/ /\ node' = [node EXCEPT ![n] = [s EXCEPT !.out = {}]]
              /\ net' = net \cup s.out
              /\ disk' = [disk EXCEPT ![n] = IF committed THEN s.my_ring_id.seq
                                                          ELSE @]
              /\ installed' =
                    IF /\ node[n].memb_state = "RECOVERY"
                       /\ s.memb_state = "OPERATIONAL"
                    THEN [installed EXCEPT ![n] =
                            Append(@, [ring_id |-> s.my_ring_id,
                                       memb |-> s.my_memb_list,
                                       trans |-> s.my_trans_memb_list])]
                    ELSE installed
              /\ recovered' = IF s.memb_state = "RECOVERY"
                              THEN recovered \cup {<<n, s.my_ring_id>>}
                              ELSE recovered
           \/ /\ committed /\ "sent" \in CrashWindows
              /\ node' = [node EXCEPT ![n] = Down]
              /\ net' = (net \ Looped(n)) \cup sent
              /\ UNCHANGED <<disk, installed, recovered>>
           \/ /\ committed /\ "truncated" \in CrashWindows
              /\ node' = [node EXCEPT ![n] = Down]
              /\ net' = (net \ Looped(n)) \cup sent
              /\ disk' = [disk EXCEPT ![n] = 0]
              /\ UNCHANGED <<installed, recovered>>

\* The process starts: its interface comes up, it loads the stored number, or
\* creates the file, and adds one.
main_iface_change_fn(n) ==
    LET seq == disk[n] + 1
        s == memb_state_gather_enter(n,
                 [Down EXCEPT !.up = TRUE,
                              !.my_ring_id = [rep |-> n, seq |-> seq],
                              !.token_ring_id_seq = seq])
    IN  /\ ~ node[n].up
        /\ starts[n] < MaxStarts /\ seq <= MaxRingSeq
        /\ starts' = [starts EXCEPT ![n] = @ + 1]
        /\ node' = [node EXCEPT ![n] = [s EXCEPT !.out = {}]]
        /\ net' = net \cup s.out
        /\ UNCHANGED <<disk, installed, recovered>>

\* The process ends without a word.
Crash(n) ==
    /\ node[n].up
    /\ node' = [node EXCEPT ![n] = Down]
    /\ net' = net \ Looped(n)
    /\ UNCHANGED <<disk, starts, installed, recovered>>

\* It ends with a leave message: a join message that fails its sender.
totemsrp_finalize(n) ==
    /\ node[n].up
    /\ node' = [node EXCEPT ![n] = Down]
    /\ net' = (net \ Looped(n)) \cup
                 {[type |-> "join", from |-> n, leave |-> TRUE,
                   ring_seq |-> node[n].my_ring_id.seq,
                   proc_list |-> node[n].my_proc_list \ {n},
                   failed_list |-> node[n].my_failed_list \cup {n}]}
    /\ UNCHANGED <<disk, starts, installed, recovered>>

timer_function_orf_token_timeout(n) ==
    LET s == node[n]
    IN  /\ s.up /\ s.token_timer
        /\ Finish(n, memb_state_gather_enter(n,
               IF s.memb_state = "GATHER"
               THEN memb_state_consensus_timeout_expired(n, s) ELSE s))

memb_timer_function_gather_consensus_timeout(n) ==
    /\ node[n].up /\ node[n].memb_state = "GATHER" /\ ~ node[n].token_timer
    /\ Finish(n, memb_state_consensus_timeout_expired(n, node[n]))

\* The representative of an idle ring looks for others; any node multicasts.
timer_function_merge_detect_timeout(n) ==
    /\ node[n].up /\ node[n].memb_state = "OPERATIONAL"
    /\ node[n].my_ring_id.rep = n
    /\ net' = net \cup {[type |-> "merge", from |-> n,
                         ring_id |-> node[n].my_ring_id]}
    /\ UNCHANGED <<node, disk, starts, installed, recovered>>

orf_token_mcast(n) ==
    /\ node[n].up /\ node[n].memb_state = "OPERATIONAL"
    /\ net' = net \cup {[type |-> "mcast", from |-> n,
                         ring_id |-> node[n].my_ring_id]}
    /\ UNCHANGED <<node, disk, starts, installed, recovered>>

\* A message of another ring brings its sender in.
Foreign(n, m) ==
    LET s == node[n]
    IN  /\ s.up /\ m.from # n /\ m.ring_id # s.my_ring_id
        /\ \/ s.memb_state = "OPERATIONAL"
           \/ s.memb_state = "GATHER" /\ m.from \notin s.my_proc_list
        /\ Finish(n, memb_state_gather_enter(n,
                         [s EXCEPT !.my_proc_list = @ \cup {m.from}]))

message_handler_memb_merge_detect(n, m) == m.type = "merge" /\ Foreign(n, m)

message_handler_mcast(n, m) == m.type = "mcast" /\ Foreign(n, m)

ignore_join_under_operational(n, s, j) ==
    \/ n \in j.failed_list
    \/ j.from \in s.my_memb_list /\ j.ring_seq < s.my_ring_id.seq

\* When a node's own message comes back, what it says is still so.
message_handler_memb_join(n, j) ==
    LET s == [node[n] EXCEPT !.token_ring_id_seq = Max({@, j.ring_seq})]
        late == j.from \in s.my_new_memb_list /\ j.ring_seq >= s.my_ring_id.seq
    IN  /\ node[n].up /\ j.type = "join"
        /\ j.from = n => /\ j.ring_seq = s.my_ring_id.seq
                         /\ j.proc_list = s.my_proc_list
                         /\ j.failed_list = s.my_failed_list
        /\ Finish(n,
             CASE s.memb_state = "OPERATIONAL" ->
                    IF ignore_join_under_operational(n, s, j) THEN s
                    ELSE memb_join_process(n, s, j)
               [] s.memb_state = "GATHER" -> memb_join_process(n, s, j)
               [] s.memb_state \in {"COMMIT", "RECOVERY"} ->
                    IF late
                    THEN memb_state_gather_enter(n, memb_join_process(n, s, j))
                    ELSE s)

\* Mutant: a commit token of the ring just abandoned is accepted.
message_handler_memb_commit_token_OwnAgain(n, m) ==
    LET s == node[n]
        c == m.token
    IN  /\ s.up /\ m.type = "commit" /\ m.to = n
        /\ \/ /\ s.memb_state = "GATHER"
              /\ c.addr = token_memb(s) /\ c.ring_id.seq >= s.my_ring_id.seq
              /\ Finish(n, memb_state_commit_enter(n, [s EXCEPT !.commit_token = c]))
           \/ /\ s.memb_state = "COMMIT"
              /\ c.ring_id.seq = s.my_ring_id.seq
              /\ c.memb_index = Cardinality(c.addr)
              /\ Finish(n, memb_state_recovery_enter(n, s, c))
           \/ /\ s.memb_state = "RECOVERY"
              /\ s.my_ring_id.rep = n /\ ~ s.originated_orf_token
              /\ Finish(n, Send([s EXCEPT !.originated_orf_token = TRUE],
                    [type |-> "orf", from |-> n, to |-> s.token_target,
                     ring_id |-> s.my_ring_id, token_seq |-> 1,
                     aru_set |-> FALSE]))

message_handler_memb_commit_token(n, m) ==
    LET s == node[n]
        c == m.token
    IN  /\ s.up /\ m.type = "commit" /\ m.to = n
        /\ \/ /\ s.memb_state = "GATHER"
              /\ c.addr = token_memb(s) /\ c.ring_id.seq > s.my_ring_id.seq
              /\ Finish(n, memb_state_commit_enter(n, [s EXCEPT !.commit_token = c]))
           \/ /\ s.memb_state = "COMMIT"
              /\ c.ring_id.seq = s.my_ring_id.seq
              /\ c.memb_index = Cardinality(c.addr)
              /\ Finish(n, memb_state_recovery_enter(n, s, c))
           \/ /\ s.memb_state = "RECOVERY"
              /\ s.my_ring_id.rep = n /\ ~ s.originated_orf_token
              /\ Finish(n, Send([s EXCEPT !.originated_orf_token = TRUE],
                    [type |-> "orf", from |-> n, to |-> s.token_target,
                     ring_id |-> s.my_ring_id, token_seq |-> 1,
                     aru_set |-> FALSE]))

\* What a visit of the token does for the membership.  aru_set tells an aru of
\* SEQNO_START_MSG, which the representative gives the token at its first
\* visit, from the one before it that orf_token_send_initial starts with.
Recovering(s, aru_set) ==
    LET flg == Min({s.my_retrans_flg_count + 1, FlgCount})
        rot == IF flg >= FlgCount /\ aru_set THEN s.my_rotation_counter + 1 ELSE 0
    IN  IF s.memb_state # "RECOVERY" THEN s
        ELSE IF rot = Rotations
        THEN memb_state_operational_enter([s EXCEPT !.my_retrans_flg_count = 0,
                                                    !.my_rotation_counter = 0])
        ELSE [s EXCEPT !.my_retrans_flg_count = flg,
                       !.my_rotation_counter = rot]

\* Mutant: a node that has not entered RECOVERY passes the token on.
NewToken_InCommit(n, m) ==
    /\ node[n].up /\ m.type = "orf" /\ m.to = n
    /\ node[n].memb_state \in {"OPERATIONAL", "RECOVERY", "COMMIT"}
    /\ m.ring_id = node[n].my_ring_id /\ m.token_seq > node[n].my_token_seq

\* A token of this ring arrives that is not a repeated one.
NewToken(n, m) ==
    /\ node[n].up /\ m.type = "orf" /\ m.to = n
    /\ node[n].memb_state \in {"OPERATIONAL", "RECOVERY"}
    /\ m.ring_id = node[n].my_ring_id /\ m.token_seq > node[n].my_token_seq

message_handler_orf_token(n, m) ==
    LET s == node[n]
        aru_set == m.aru_set \/ s.my_ring_id.rep = n
    IN  /\ NewToken(n, m) /\ m.token_seq < MaxTokenSeq
        /\ Finish(n, Send(Recovering([s EXCEPT !.my_token_seq = m.token_seq],
                                     aru_set),
              [m EXCEPT !.from = n, !.to = s.token_target,
                        !.token_seq = @ + 1, !.aru_set = aru_set]))

\* The node finds that it fails to receive the messages of others.
FailToReceive(n, m) ==
    /\ NewToken(n, m) /\ node[n].my_new_memb_list # {n}
    /\ Finish(n, memb_state_gather_enter(n,
           [node[n] EXCEPT !.failed_to_recv = TRUE,
                           !.my_failed_list = @ \cup {n}]))

Next ==
    \E n \in Node :
        \/ main_iface_change_fn(n)
        \/ Crash(n)
        \/ totemsrp_finalize(n)
        \/ timer_function_orf_token_timeout(n)
        \/ memb_timer_function_gather_consensus_timeout(n)
        \/ timer_function_merge_detect_timeout(n)
        \/ orf_token_mcast(n)
        \/ \E m \in net :
              \/ message_handler_memb_merge_detect(n, m)
              \/ message_handler_mcast(n, m)
              \/ message_handler_memb_join(n, m)
              \/ message_handler_memb_commit_token(n, m)
              \/ message_handler_orf_token(n, m)
              \/ FailToReceive(n, m)

Spec == Init /\ [][Next]_vars

----------------------------------------------------------------------------
(***************************************************************************)
(* Properties.                                                             *)
(***************************************************************************)

IsMessage(m) ==
    \/ m \in [type : {"join"}, from : Node, leave : BOOLEAN,
              ring_seq : 0..MaxRingSeq,
              proc_list : SUBSET Node, failed_list : SUBSET Node]
    \/ /\ m.type = "commit" /\ m.from \in Node /\ m.to \in Node
       /\ m.token \in CommitToken(m.token.addr)
    \/ m \in [type : {"orf"}, from : Node, to : Node, ring_id : RingId,
              token_seq : 0..MaxTokenSeq, aru_set : BOOLEAN]
    \/ m \in [type : {"merge", "mcast"}, from : Node, ring_id : RingId]

NodeState(addr) ==
    [up : BOOLEAN, memb_state : {"OPERATIONAL", "GATHER", "COMMIT", "RECOVERY"},
     my_ring_id : RingId, my_old_ring_id : RingId,
     old_ring_state_saved : BOOLEAN, token_ring_id_seq : 0..MaxRingSeq,
     my_proc_list : SUBSET Node, my_failed_list : SUBSET Node,
     consensus_list : SUBSET Node, my_memb_list : SUBSET Node,
     my_new_memb_list : SUBSET Node, my_trans_memb_list : SUBSET Node,
     commit_token : CommitToken(addr), token_target : Node \cup {0},
     originated_orf_token : BOOLEAN, failed_to_recv : BOOLEAN,
     my_retrans_flg_count : 0..FlgCount, my_rotation_counter : 0..(Rotations - 1),
     my_token_seq : 0..MaxTokenSeq, token_timer : BOOLEAN, out : {{}}]

\* Every variable keeps its type: the members that a commit token lists, the
\* counters of the recovery and the ring sequence numbers stay in their ranges.
TypeOK ==
    /\ \A n \in Node : node[n] \in NodeState(node[n].commit_token.addr)
    /\ disk \in [Node -> 0..MaxRingSeq]
    /\ \A m \in net : IsMessage(m)
    /\ starts \in [Node -> 0..MaxStarts]
    /\ installed \in [Node -> Seq([ring_id : RingId, memb : SUBSET Node,
                                   trans : SUBSET Node])]
    /\ recovered \subseteq Node \X RingId

OnRing(n) == node[n].up /\ node[n].memb_state \in {"RECOVERY", "OPERATIONAL"}

\* A ring identifier names one ring: nodes that recover or operate on rings with
\* the same identifier have the same members, also after crashes and restarts
\* of the representative that makes up the identifiers
\* (memb_state_commit_token_create, memb_ring_id_store).
RingIdNamesRing ==
    /\ \A m, n \in Node :
          OnRing(m) /\ OnRing(n) /\ node[m].my_ring_id = node[n].my_ring_id
              => node[m].my_new_memb_list = node[n].my_new_memb_list
    /\ \A m, n \in Node :
          \A i \in DOMAIN installed[m], j \in DOMAIN installed[n] :
              installed[m][i].ring_id = installed[n][j].ring_id
                  => installed[m][i].memb = installed[n][j].memb

\* A node installs rings with growing sequence numbers over all its lives, so it
\* never installs the same ring twice: what main_iface_change_fn promises of a
\* restarted node.
RingIdsGrow ==
    \A n \in Node : \A i, j \in DOMAIN installed[n] :
        i < j => installed[n][i].ring_id.seq < installed[n][j].ring_id.seq

\* A node installs a ring only after all of its members have entered RECOVERY on
\* it, although the commit token and the token may be repeated, and stale ones
\* arrive late.
InstalledByAgreement ==
    \A n \in Node : \A i \in DOMAIN installed[n] :
        /\ n \in installed[n][i].memb
        /\ \A m \in installed[n][i].memb :
              <<m, installed[n][i].ring_id>> \in recovered

\* The transitional configurations of a ring are mutual: if n tells its
\* application that m moved with it from its previous ring to this one, m,
\* where it installed the ring, says so of n (memb_state_commit_token_update,
\* memb_set_and_with_ring_id, old_ring_state_save).
TransitionMutual ==
    \A m, n \in Node :
        \A i \in DOMAIN installed[m], j \in DOMAIN installed[n] :
            installed[m][i].ring_id = installed[n][j].ring_id
                => (m \in installed[n][j].trans <=> n \in installed[m][i].trans)

\* The asserts of the membership protocol: some node is left to form a ring with
\* (memb_consensus_agreed, memb_lowest_in_config), and no node takes its turn
\* with the commit token after the last (memb_state_commit_token_update).
AssertsHold ==
    \A n \in Node :
        node[n].up =>
            /\ token_memb(node[n]) # {} \/ node[n].failed_to_recv
            /\ node[n].commit_token.memb_index
                  <= Cardinality(node[n].commit_token.addr)

============================================================================
