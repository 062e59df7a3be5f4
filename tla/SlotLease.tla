---- MODULE SlotLease ----
(***************************************************************************)
(* What the session manager promises with the slots of the host, without   *)
(* goroutines, rows or error paths: a slot is leased to one session at a   *)
(* time, a VM runs only in the slot that its session has on lease, and a   *)
(* slot is given back only when nothing runs there any more.  A server     *)
(* that ends forgets the leases; the next one takes over those whose VM    *)
(* still runs before it serves.  SessionManager is shown to implement this *)
(* module.                                                                 *)
(***************************************************************************)
CONSTANTS
  Owners,  \* sessions
  Slots    \* slots of the host that may be handed out

VARIABLES
  lease,   \* slots on lease, as <<owner, slot>>
  up,      \* leases whose VM runs
  mode     \* "serving", or "loading" what an earlier server left

vars == <<lease, up, mode>>

Init == lease = {} /\ up = {} /\ mode = "serving"

\* allocSlot for Create or Restart: the slot has no owner, the owner no slot.
Grant(o, i) ==
  /\ mode = "serving"
  /\ \A l \in lease : l[1] # o /\ l[2] # i
  /\ lease' = lease \cup {<<o, i>>}
  /\ UNCHANGED <<up, mode>>

\* Launch.
PowerOn(l) ==
  /\ mode = "serving"
  /\ up' = up \cup {l}
  /\ UNCHANGED <<lease, mode>>

\* Stop of the VM, by whichever goroutine tears its session down.
PowerOff(l) ==
  /\ mode = "serving"
  /\ up' = up \ {l}
  /\ UNCHANGED <<lease, mode>>

\* freeSlot.
Return(l) ==
  /\ mode = "serving"
  /\ l \notin up
  /\ lease' = lease \ {l}
  /\ UNCHANGED <<up, mode>>

\* The server ends, perhaps with the host.  What is left of a lease is its VM.
Lose ==
  /\ up' \in {up, {}}
  /\ lease' = up'
  /\ mode' = "loading"

\* The next server gives a session up: it ends the VM, and with it the lease.
Evict(l) ==
  /\ mode = "loading"
  /\ up' = up \ {l}
  /\ lease' = lease \ {l}
  /\ UNCHANGED mode

\* The next server ends the VMs that it has not taken over, and serves.
Resume ==
  /\ mode = "loading"
  /\ up' \in SUBSET up
  /\ lease' = up'
  /\ mode' = "serving"

Next ==
  \/ \E o \in Owners, i \in Slots : Grant(o, i)
  \/ \E l \in lease : PowerOn(l) \/ PowerOff(l) \/ Return(l) \/ Evict(l)
  \/ Lose
  \/ Resume

Spec == Init /\ [][Next]_vars
====
