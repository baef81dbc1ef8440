-------------------------------- MODULE Sync --------------------------------
(***************************************************************************)
(* The synchronization of the services after a change of the ring          *)
(* (exec/sync.c, with the token callbacks of exec/schedwrk.c and           *)
(* confchg_fn of exec/main.c).  The members of a new ring first tell each  *)
(* other which services they run; then, service by service, every member   *)
(* does its part (sync_process) and all wait for each other (barrier)      *)
(* before they activate the service.  A further change of the ring aborts  *)
(* the round wherever each member is in it.                                *)
(*                                                                         *)
(* Totem is external here: rings form from any nodes, each member learns   *)
(* of the ring (transitional, then regular configuration) when it gets to  *)
(* it or never, and delivers a prefix of the ring's one sequence of        *)
(* messages.  A message waits in the sender's queue until the token comes, *)
(* and is then sent on whatever ring the sender is on.                     *)
(***************************************************************************)
EXTENDS Integers, Sequences, FiniteSets, SequencesExt

CONSTANTS
    Node,
    Loaded,             \* the services (numbers) that each node runs
    MaxRings,           \* bound: rings formed
    MaxRestarts         \* bound: restarts of nodes

ASSUME SyncAssumption ==
    /\ IsFiniteSet(Node) /\ Node # {}
    /\ \A n \in Node : Loaded[n] \subseteq Nat /\ IsFiniteSet(Loaded[n])
    /\ MaxRings \in Nat /\ MaxRestarts \in Nat

VARIABLES
    rings,              \* the rings formed: members, and where each came from
    log,                \* the messages of each ring, in their order
    at,                 \* the ring whose regular configuration a node has; before
                        \* that, minus the rings formed when it started
    confchg,            \* the ring whose transitional one it has, or 0
    pos,                \* how many messages of the ring a node has delivered
    queue,              \* what waits for the token at a node
    node,               \* the static variables of sync.c and main.c
    phase,              \* history: what each local service was last told to do
    finished,           \* history: <<n, r, s>> if n did its part of s on ring r
    restarts

vars == <<rings, log, at, confchg, pos, queue, node, phase, finished, restarts>>

totem == <<rings, log, restarts>>

\* A list is sorted by service number; sync_process has no work left at
\* SYNC_BARRIER.  handle is the live schedwrk instance, and callbacks counts the
\* token callbacks registered for it, those of destroyed instances included.
Started ==
    [my_state |-> "BARRIER", my_ring_id |-> 0, my_member_list |-> {},
     my_trans_list |-> {}, received |-> {}, my_service_list |-> <<>>,
     my_processing_idx |-> 1, handle |-> FALSE, callbacks |-> 0,
     sync_in_process |-> TRUE]

Init ==
    /\ rings = <<>> /\ log = <<>>
    /\ at = [n \in Node |-> 0] /\ confchg = [n \in Node |-> 0]
    /\ pos = [n \in Node |-> 0]
    /\ queue = [n \in Node |-> <<>>]
    /\ node = [n \in Node |-> Started]
    /\ phase = [n \in Node |-> [s \in Loaded[n] |-> "idle"]]
    /\ finished = {}
    /\ restarts = 0

Install(n, s) == node' = [node EXCEPT ![n] = s]

Tell(n, services, p) ==
    phase' = [phase EXCEPT ![n] = [s \in Loaded[n] |->
                  IF s \in services THEN p ELSE phase[n][s]]]

Enqueue(n, m) == queue' = [queue EXCEPT ![n] = Append(@, m)]

----------------------------------------------------------------------------
(***************************************************************************)
(* Totem.                                                                  *)
(***************************************************************************)

FormRing(S) ==
    /\ Len(rings) < MaxRings /\ S # {}
    /\ rings' = Append(rings, [memb |-> S, from |-> [m \in S |-> at[m]]])
    /\ log' = Append(log, <<>>)
    /\ UNCHANGED <<at, confchg, pos, queue, node, phase, finished, restarts>>

Transmit(n) ==
    /\ at[n] > 0 /\ confchg[n] = 0 /\ queue[n] # <<>>
    /\ log' = [log EXCEPT ![at[n]] = Append(@, Head(queue[n]))]
    /\ queue' = [queue EXCEPT ![n] = Tail(@)]
    /\ UNCHANGED <<rings, at, confchg, pos, node, phase, finished, restarts>>

Restart(n) ==
    /\ at[n] > 0 /\ restarts < MaxRestarts
    /\ restarts' = restarts + 1
    /\ at' = [at EXCEPT ![n] = - Len(rings)]
    /\ confchg' = [confchg EXCEPT ![n] = 0]
    /\ pos' = [pos EXCEPT ![n] = 0]
    /\ queue' = [queue EXCEPT ![n] = <<>>]
    /\ Install(n, Started)
    /\ Tell(n, Loaded[n], "idle")
    /\ UNCHANGED <<rings, log, finished>>

----------------------------------------------------------------------------
(***************************************************************************)
(* Configuration changes.                                                  *)
(***************************************************************************)

\* The service whose callbacks are next, if this node runs it.
Current(n, s) ==
    IF s.my_processing_idx \in DOMAIN s.my_service_list
    THEN {s.my_service_list[s.my_processing_idx]} \cap Loaded[n] ELSE {}

\* Mutant: a service that waits at the barrier is not aborted.
Aborted_NotAtBarrier(n) ==
    IF node[n].my_state = "PROCESS" THEN Current(n, node[n]) ELSE {}

\* The service that sync_abort aborts.
Aborted(n) ==
    IF node[n].my_state \in {"PROCESS", "BARRIER"}
    THEN Current(n, node[n]) ELSE {}

\* Its schedwrk instance is destroyed, the token callback stays.
sync_abort(s) ==
    [s EXCEPT !.my_ring_id = 0,
              !.handle = IF s.my_state = "PROCESS" THEN FALSE ELSE @]

\* The transitional configuration: those that come from the same ring.
Transitional(n, r) ==
    {m \in rings[r].memb : at[n] > 0 /\ rings[r].from[m] = at[n]}

confchg_fn_transitional(n) ==
    \E r \in DOMAIN rings :
        /\ r > at[n] /\ r > - at[n] /\ n \in rings[r].memb /\ rings[r].from[n] = at[n]
        /\ confchg[n] = 0
        /\ confchg' = [confchg EXCEPT ![n] = r]
        /\ LET s == [node[n] EXCEPT !.sync_in_process = TRUE,
                                    !.my_trans_list = Transitional(n, r)]
           IN  IF node[n].sync_in_process
               THEN Install(n, sync_abort(s)) /\ Tell(n, Aborted(n), "aborted")
               ELSE Install(n, s) /\ UNCHANGED phase
        /\ UNCHANGED <<totem, at, pos, queue, finished>>

SortedBy(S) == SetToSortSeq(S, LAMBDA a, b : a < b)

\* The regular configuration: sync_abort, sync_start, and every local service
\* is told of the members (sync_init).
confchg_fn_regular(n) ==
    LET r == confchg[n]
        memb == rings[r].memb
    IN  /\ r # 0
        /\ at' = [at EXCEPT ![n] = r] /\ confchg' = [confchg EXCEPT ![n] = 0]
        /\ pos' = [pos EXCEPT ![n] = 0]
        /\ Install(n, [sync_abort(node[n]) EXCEPT
               !.my_ring_id = r, !.my_state = "SERVICELIST_BUILD",
               !.my_member_list = memb, !.received = {},
               !.my_trans_list = @ \cap memb,
               !.my_processing_idx = 1,
               !.my_service_list = SortedBy(Loaded[n])])
        /\ Tell(n, Loaded[n], "init")
        /\ Enqueue(n, [type |-> "build", from |-> n, ring_id |-> r,
                       services |-> Loaded[n]])
        /\ UNCHANGED <<totem, finished>>

----------------------------------------------------------------------------
(***************************************************************************)
(* Messages and token callbacks.                                           *)
(***************************************************************************)

\* corosync_sync_completed
Completed(s) == [s EXCEPT !.sync_in_process = FALSE]

\* Mutant: no instance is created while a callback is registered.
sync_process_enter_IfNoCallback(s) ==
    IF s.my_service_list = <<>>
    THEN Completed([s EXCEPT !.my_state = "SERVICELIST_BUILD"])
    ELSE [s EXCEPT !.my_state = "PROCESS", !.received = {},
                   !.handle = @ \/ s.callbacks = 0,
                   !.callbacks = IF @ = 0 THEN 1 ELSE @]

\* Mutant: the nodes that reached the last barrier are not forgotten.
sync_process_enter_KeepReceived(s) ==
    IF s.my_service_list = <<>>
    THEN Completed([s EXCEPT !.my_state = "SERVICELIST_BUILD"])
    ELSE [s EXCEPT !.my_state = "PROCESS", !.handle = TRUE, !.callbacks = @ + 1]

sync_process_enter(s) ==
    IF s.my_service_list = <<>>
    THEN Completed([s EXCEPT !.my_state = "SERVICELIST_BUILD"])
    ELSE [s EXCEPT !.my_state = "PROCESS", !.received = {},
                   !.handle = TRUE, !.callbacks = @ + 1]

\* Mutant: the services of others are put behind the own ones.
MergedServices_Unsorted(s, m) ==
    s.my_service_list \o SortedBy(m.services \ ToSet(s.my_service_list))

\* The services of another node are added, without callbacks.
MergedServices(s, m) == SortedBy(ToSet(s.my_service_list) \cup m.services)

sync_service_build_handler(n, m) ==
    LET s == [node[n] EXCEPT !.my_service_list = MergedServices(node[n], m),
                             !.received = @ \cup {m.from}]
    IN  /\ IF m.ring_id # node[n].my_ring_id THEN UNCHANGED node
           ELSE Install(n, IF s.my_member_list \subseteq s.received
                           THEN sync_process_enter(s) ELSE s)
        /\ UNCHANGED phase

\* Mutant: a barrier of an old ring counts.
BarrierIsOld_Never(n, m) == FALSE

BarrierIsOld(n, m) == m.ring_id # node[n].my_ring_id

BarrierReached(s) == s.my_member_list \subseteq s.received

sync_barrier_handler(n, m) ==
    LET s == [node[n] EXCEPT !.received = @ \cup {m.from}]
        t == [s EXCEPT !.my_processing_idx = @ + 1]
    IN  IF BarrierIsOld(n, m) THEN UNCHANGED <<node, phase>>
        ELSE IF ~ BarrierReached(s) THEN Install(n, s) /\ UNCHANGED phase
        ELSE /\ Tell(n, Current(n, s), "activated")
             /\ Install(n, IF t.my_processing_idx > Len(t.my_service_list)
                           THEN Completed(t) ELSE sync_process_enter(t))

sync_deliver_fn(n) ==
    /\ at[n] > 0 /\ confchg[n] = 0 /\ pos[n] < Len(log[at[n]])
    /\ pos' = [pos EXCEPT ![n] = @ + 1]
    /\ LET m == log[at[n]][pos[n] + 1]
       IN  CASE m.type = "build"   -> sync_service_build_handler(n, m)
             [] m.type = "barrier" -> sync_barrier_handler(n, m)
    /\ UNCHANGED <<totem, at, confchg, queue, finished>>

\* After the token was sent the callbacks run, all on the one handle: the first
\* whose work is done destroys it, and the others are kept for the next token.
\* A service that is not loaded has no work; others may have to try again.
schedwrk_do(n) ==
    LET s == node[n]
        idx == s.my_service_list[s.my_processing_idx]
    IN  /\ at[n] > 0 /\ confchg[n] = 0 /\ s.callbacks > 0 /\ s.handle
        /\ Tell(n, Current(n, s), "working")
        /\ Install(n, [s EXCEPT !.my_state = "BARRIER", !.handle = FALSE,
                                !.callbacks = @ - 1])
        /\ Enqueue(n, [type |-> "barrier", from |-> n, ring_id |-> s.my_ring_id])
        /\ finished' = finished \cup {<<n, at[n], idx>>}
        /\ UNCHANGED <<totem, at, confchg, pos>>

schedwrk_do_again(n) ==
    LET s == node[n]
    IN  /\ at[n] > 0 /\ confchg[n] = 0 /\ s.callbacks > 0 /\ s.handle
        /\ Current(n, s) # {}
        /\ Tell(n, Current(n, s), "working")
        /\ UNCHANGED <<totem, at, confchg, pos, queue, node, finished>>

Next ==
    \/ \E S \in SUBSET Node : FormRing(S)
    \/ \E n \in Node :
          \/ Transmit(n)
          \/ Restart(n)
          \/ confchg_fn_transitional(n)
          \/ confchg_fn_regular(n)
          \/ sync_deliver_fn(n)
          \/ schedwrk_do(n)
          \/ schedwrk_do_again(n)

\* The token comes around, messages are delivered, configurations reported and
\* services finish their work; a new ring need never form.
Fairness ==
    \A n \in Node :
        /\ WF_vars(Transmit(n))
        /\ WF_vars(sync_deliver_fn(n))
        /\ WF_vars(schedwrk_do(n))
        /\ WF_vars(confchg_fn_regular(n))

Spec == Init /\ [][Next]_vars

FairSpec == Spec /\ Fairness

----------------------------------------------------------------------------
(***************************************************************************)
(* Properties.                                                             *)
(***************************************************************************)

Service == UNION {Loaded[n] : n \in Node}

\* Every variable keeps its type; the index of the service in work stays within
\* the list, or one behind it when the round is complete and no work is scheduled.
TypeOK ==
    /\ Len(log) = Len(rings) /\ Len(rings) <= MaxRings
    /\ \A n \in Node :
          /\ at[n] \in (- Len(rings))..Len(rings) /\ confchg[n] \in 0..Len(rings)
          /\ node[n].my_state \in {"SERVICELIST_BUILD", "PROCESS", "BARRIER"}
          /\ node[n].my_ring_id \in {0, at[n]}
          /\ node[n].received \subseteq Node
          /\ ToSet(node[n].my_service_list) \subseteq Service
          /\ node[n].my_processing_idx \in 1..(Len(node[n].my_service_list) + 1)
          /\ node[n].handle => node[n].my_processing_idx <= Len(node[n].my_service_list)
          /\ node[n].callbacks \in 0..MaxRings
          /\ \A x \in Loaded[n] :
                phase[n][x] \in {"idle", "init", "working", "activated", "aborted"}

\* The barrier holds: a node activates a service only after every member of the
\* ring has done its part of it on this ring, although barrier messages name no
\* service, aborted rounds leave theirs behind in the queues, and each member
\* starts on the next service when it gets to it (sync_barrier_handler).
ActivatedByAll ==
    \A n \in Node : \A x \in Loaded[n] :
        phase[n][x] = "activated" =>
            \A m \in rings[at[n]].memb : <<m, at[n], x>> \in finished

\* Members of a ring that have heard all others go through the same services in
\* the same order, also services that some of them do not run
\* (sync_service_build_handler, its qsort included).
ServiceListsAgree ==
    \A m, n \in Node :
        /\ at[m] = at[n] /\ node[m].my_ring_id # 0 /\ node[n].my_ring_id # 0
        /\ node[m].my_state # "SERVICELIST_BUILD"
        /\ node[n].my_state # "SERVICELIST_BUILD"
        => node[m].my_service_list = node[n].my_service_list

\* No state of a round leaks into the next: by the time a node learns of the next
\* ring, each service that began its work has been activated or aborted
\* (sync_abort, whose comment says so of a service at the barrier).
AbortedOrActivated ==
    \A n \in Node : confchg[n] # 0 =>
        \A x \in Loaded[n] : phase[n][x] # "working"

\* Synchronization completes: if the members of a ring stay on it from some time
\* on, each of them gets to provide service again (corosync_sync_completed).
Stay(r) ==
    /\ r \in DOMAIN rings
    /\ \A n \in rings[r].memb : at[n] = r /\ confchg[n] = 0

Completes ==
    \A r \in 1..MaxRings :
        <>[]Stay(r) =>
            <>[](\A n \in Node : at[n] = r => ~ node[n].sync_in_process)
=============================================================================
