---------------------------- MODULE MCVoteQuorum ----------------------------
(***************************************************************************)
(* VoteQuorum with configurations, and with a bound on how many rings,     *)
(* restarts and requests come while nodes are busy: the others wait until  *)
(* every node that is on a ring has delivered its messages and finished    *)
(* synchronization.                                                        *)
(***************************************************************************)
EXTENDS VoteQuorum

CONSTANT MaxInterrupts      \* bound: those that do not wait

ASSUME InterruptsAssumption == MaxInterrupts \in Nat

VARIABLE interrupts

Quiet ==
    \A n \in Node : at[n] # 0 => ~ vq[n].sync_in_progress /\ queue[n] = <<>>

Disturb ==
    \/ \E S \in SUBSET Node : FormRing(S)
    \/ \E n \in Node :
          \/ Restart(n)
          \/ votequorum_exec_exit_fn(n)
          \/ cancel_wait_for_all(n)
          \/ votequorum_refresh_config(n)
          \/ \E v \in Asked :
                \/ message_handler_req_lib_votequorum_setexpected(n, v)
                \/ \E m \in Node : message_handler_req_lib_votequorum_setvotes(n, m, v)

Undisturbed ==
    \E n \in Node :
        \/ Deliver(n)
        \/ votequorum_sync_process(n)
        \/ votequorum_last_man_standing_timer_fn(n)

InitDisturbed == Init /\ interrupts = 0

SpecDisturbed ==
    /\ InitDisturbed
    /\ [][\/ Undisturbed /\ UNCHANGED interrupts
          \/ Quiet /\ Disturb /\ UNCHANGED interrupts
          \/ /\ ~ Quiet /\ interrupts < MaxInterrupts /\ Disturb
             /\ interrupts' = interrupts + 1]_<<vars, interrupts>>

Plain ==
    [votes |-> [n \in Node |-> 1], expected_votes |-> 0, nodelist |-> TRUE,
     two_node |-> FALSE, wait_for_all |-> "unset", auto_tie_breaker |-> "none",
     atb_nodelist |-> <<>>, last_man_standing |-> FALSE,
     allow_downscale |-> FALSE, expected_votes_tracking |-> FALSE]

Weighted == [n \in Node |-> IF n = 1 THEN 2 ELSE 1]

ConfVotes == {Plain, [Plain EXCEPT !.votes = Weighted]}
ConfTie == {[Plain EXCEPT !.wait_for_all = "yes", !.auto_tie_breaker = "lowest"]}

\* Every feature, and configurations to change to at runtime.
ConfFeatures ==
    ConfVotes \cup ConfTie \cup
    {[Plain EXCEPT !.two_node = TRUE],
     [Plain EXCEPT !.wait_for_all = "yes", !.auto_tie_breaker = "list",
                   !.atb_nodelist = <<2, 1>>, !.last_man_standing = TRUE],
     [Plain EXCEPT !.auto_tie_breaker = "highest"],
     [Plain EXCEPT !.allow_downscale = TRUE],
     [Plain EXCEPT !.nodelist = FALSE, !.expected_votes = 3]}
=============================================================================
