-------------------------------- MODULE Mutex --------------------------------
(***************************************************************************)
(* What the locks of sync/spinlock.rs promise: a lock is held by at most   *)
(* one task at a time, and only its holder gives it back.                  *)
(***************************************************************************)
CONSTANTS Locks, Tasks, Nobody

VARIABLE owner

Init == owner = [l \in Locks |-> Nobody]

Acquire(l, t) == owner[l] = Nobody /\ owner' = [owner EXCEPT ![l] = t]
Release(l, t) == owner[l] = t /\ owner' = [owner EXCEPT ![l] = Nobody]

Next == \E l \in Locks, t \in Tasks : Acquire(l, t) \/ Release(l, t)

Spec == Init /\ [][Next]_owner
=============================================================================
