------------------------------ MODULE SlotPool ------------------------------
(***************************************************************************)
(* What the slots of Bivac's backup manager promise, whatever the code     *)
(* does to keep the promise: on each host at most Capacity holders own a   *)
(* slot; the dispatcher obtains it, hands it over to the goroutine that    *)
(* will run the backup, and whoever owns it gives it back.                 *)
(*                                                                         *)
(* The channel `slots[v.HostBind]` of src/internal/manager/manager.go is   *)
(* only a counter: it knows how many slots are out, never whose they are.  *)
(* BackupScheduler is shown to implement this pool of owned slots.         *)
(***************************************************************************)
EXTENDS Integers, FiniteSets

CONSTANTS
    Holders,    \* those who may own a slot
    Hosts,      \* one pool of slots per host
    Capacity    \* slots of a host (--parallel.count)

VARIABLE held   \* held[h]: the holders that own a slot of host h

vars == held

TypeOK == held \in [Hosts -> SUBSET Holders]

Init == held = [h \in Hosts |-> {}]

Idle(x) == \A h \in Hosts : x \notin held[h]

\* A holder that owns nothing takes a free slot of h.
Grant(x, h) ==
    /\ Idle(x)
    /\ Cardinality(held[h]) < Capacity
    /\ held' = [held EXCEPT ![h] = @ \union {x}]

\* x passes its slot of h on to y: the number of slots out does not change.
Handover(x, y, h) ==
    /\ x \in held[h]
    /\ Idle(y)
    /\ held' = [held EXCEPT ![h] = (@ \ {x}) \union {y}]

Return(x, h) ==
    /\ x \in held[h]
    /\ held' = [held EXCEPT ![h] = @ \ {x}]

Next ==
    /\ held' # held
    /\ \E h \in Hosts, x \in Holders :
        \/ Grant(x, h)
        \/ \E y \in Holders : Handover(x, y, h)
        \/ Return(x, h)

Spec == Init /\ [][Next]_vars

-----------------------------------------------------------------------------

\* Every slot that is taken comes back (or is handed over, and then comes
\* back from the new owner): no backup keeps a slot for ever.
EverySlotReturned ==
    \A h \in Hosts, x \in Holders : x \in held[h] ~> x \notin held[h]
=============================================================================
