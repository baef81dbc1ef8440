---------------------------- MODULE MCTotemRing ----------------------------
(***************************************************************************)
(* TotemRing without the operations that only multiply its states: the     *)
(* nodes stay on the ring, the transitional queues stay in use and no hold *)
(* is cancelled.  Used where more nodes, messages or token rotations are   *)
(* needed than the whole of Next allows.                                   *)
(***************************************************************************)
EXTENDS TotemRing

CONSTANT Sending            \* bound: the nodes whose applications send

ASSUME SendingAssumption == Sending \subseteq Node

NextOnRing ==
    \E n \in Node :
        \/ n \in Sending /\ totemsrp_mcast(n)
        \/ \E m \in mcasts : message_handler_mcast(n, m)
        \/ \E t \in tokens : t[1] = n /\ message_handler_orf_token(n, t[2])
        \/ token_retransmit(n)

SpecOnRing == Init /\ [][NextOnRing]_vars
============================================================================
