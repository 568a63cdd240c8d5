------------------------------ MODULE LeasePool ------------------------------
(***************************************************************************)
(* What an overlay coordinator promises about virtual addresses: a virtual *)
(* address belongs to nobody or to one real address, it is granted only    *)
(* while it belongs to nobody, and it changes hands only by being given up *)
(* first.  n2n/supernode.go implements this (see Supernode, whose runs     *)
(* check the refinement and whose proof module proves it); the heartbeat   *)
(* of stunvpv/server.go does not (see StunVpv).                            *)
(***************************************************************************)
CONSTANTS Vip,   \* the virtual addresses of the pool
          Addr,  \* the real (UDP source) addresses
          None   \* no holder

VARIABLE holder  \* holder[v]: the real address v is leased to, or None

Init == holder = [v \in Vip |-> None]

Grant(v, a) == /\ holder[v] = None
               /\ holder' = [holder EXCEPT ![v] = a]

GiveUp(v) == /\ holder[v] # None
             /\ holder' = [holder EXCEPT ![v] = None]

\* The coordinator keeps nothing across a restart.
Forget == holder' = [v \in Vip |-> None]

Next == \/ \E v \in Vip, a \in Addr : Grant(v, a)
        \/ \E v \in Vip : GiveUp(v)
        \/ Forget

Spec == Init /\ [][Next]_holder
==============================================================================
