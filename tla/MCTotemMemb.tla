---------------------------- MODULE MCTotemMemb ----------------------------
(***************************************************************************)
(* TotemMemb with a bound on what disturbs the protocol: timeouts, crashes, *)
(* leaves, multicasts seen by other rings and failures to receive.  Starts *)
(* and the handling of messages, stale and repeated ones included, are     *)
(* free.  A crash that no restart follows only stops the node from taking  *)
(* steps, which every behaviour may do, so only the others are taken.      *)
(***************************************************************************)
EXTENDS TotemMemb

CONSTANTS
    MaxDisturbances,    \* bound: disturbances of all nodes together
    Disturbing          \* the kinds that happen

ASSUME DisturbanceAssumption ==
    /\ MaxDisturbances \in Nat
    /\ Disturbing \subseteq {"crash", "leave", "token", "consensus", "merge",
                             "mcast", "fail"}

VARIABLE disturbances

Happens(kind) == kind \in Disturbing /\ disturbances < MaxDisturbances

Disturb(n) ==
    \/ Happens("crash") /\ starts[n] < MaxStarts /\ Crash(n)
    \/ Happens("leave") /\ totemsrp_finalize(n)
    \/ Happens("token") /\ timer_function_orf_token_timeout(n)
    \/ Happens("consensus") /\ memb_timer_function_gather_consensus_timeout(n)
    \/ Happens("merge") /\ timer_function_merge_detect_timeout(n)
    \/ Happens("mcast") /\ orf_token_mcast(n)
    \/ Happens("fail") /\ \E m \in net : FailToReceive(n, m)

Undisturbed(n) ==
    \/ main_iface_change_fn(n)
    \/ \E m \in net :
          \/ message_handler_memb_merge_detect(n, m)
          \/ message_handler_mcast(n, m)
          \/ message_handler_memb_join(n, m)
          \/ message_handler_memb_commit_token(n, m)
          \/ message_handler_orf_token(n, m)

InitDisturbed == Init /\ disturbances = 0

SpecDisturbed ==
    /\ InitDisturbed
    /\ [][\E n \in Node :
            \/ Undisturbed(n) /\ UNCHANGED disturbances
            \/ /\ Disturb(n)
               /\ disturbances' = disturbances + 1]_<<vars, disturbances>>
============================================================================
