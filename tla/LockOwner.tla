----------------------------- MODULE LockOwner -----------------------------
(***************************************************************************)
(* What a spinlock promises: a lock is free or belongs to one of the       *)
(* contexts that use it, a context takes it only when it is free, and only *)
(* its owner gives it back.                                                *)
(***************************************************************************)
CONSTANTS Contexts, Free

VARIABLE owner

Init == owner = Free

Acquire(x) == owner = Free /\ owner' = x

Release(x) == owner = x /\ owner' = Free

Next == \E x \in Contexts : Acquire(x) \/ Release(x)

Spec == Init /\ [][Next]_owner
=============================================================================
